---- MODULE Spec2Model ----
(***************************************************************************)
(* Model of the MCP conversational-agent backend (src/src/server.ts):      *)
(* the identity resolver ensureUserAndConversation over the relational     *)
(* store, the state tools getState / setState, the channel normaliser      *)
(* parseChannel and the single-slot SSO token cache of getSSOToken.        *)
(***************************************************************************)
EXTENDS Integers, Sequences, FiniteSets, TLC

(* ------------------------------------------------------------------ *)
(* Bounds                                                             *)
(* ------------------------------------------------------------------ *)
\* number of concurrently running tool invocations
NTasks == 2
\* largest scalar stored under a key of the JSON state
MaxNum == 1

\* rows of the Consent and of the Message table when every tool is in play
MaxRows == 2
\* SSE sessions opened over the life of the process
MaxSessions == 2
\* messages appended when only the message tools are in play
MaxAppended == 5
\* consents recorded when only recordConsent is in play
MaxConsents == 3

\* length up to which every string over the alphabet is a channel input
MaxShortLen == 2
\* how many times the clock advances
MaxTicks == 5
\* milliseconds by which the clock advances in one step
TickMs == 30000

Tasks == 1..NTasks

(* ------------------------------------------------------------------ *)
(* Strings as sequences of characters (parseChannel lower-cases them)  *)
(* ------------------------------------------------------------------ *)
Str_whatsapp == <<"w","h","a","t","s","a","p","p">>
Str_web      == <<"w","e","b">>

\* String.prototype.toLowerCase on one character
LowerChar(c) ==
  CASE c = "W" -> "w" [] c = "H" -> "h" [] c = "A" -> "a" [] c = "T" -> "t"
    [] c = "S" -> "s" [] c = "P" -> "p" [] c = "E" -> "e" [] c = "B" -> "b"
    [] c = "X" -> "x"
    [] OTHER -> c

toLowerCase(s) == [i \in 1..Len(s) |-> LowerChar(s[i])]

parseChannel_CaseSensitive(input) ==
  IF input = Str_whatsapp THEN "whatsapp"
  ELSE IF input = Str_web THEN "web"
  ELSE "other"

parseChannel(input) ==
  LET v == toLowerCase(input) IN
  IF v = Str_whatsapp THEN "whatsapp"
  ELSE IF v = Str_web THEN "web"
  ELSE "other"

(* ------------------------------------------------------------------ *)
(* JSON values                                                        *)
(* ------------------------------------------------------------------ *)
EmptyFcn == [k \in {} |-> 0]
JNull    == [kind |-> "null", val |-> EmptyFcn]
JNum(n)  == [kind |-> "num", val |-> n]
JObj(f)  == [kind |-> "obj", val |-> f]
EmptyObj == JObj(EmptyFcn)

\* all objects with keys among K and values among V
ObjectsOver(K, V) == UNION {[S -> V] : S \in SUBSET K}

JStr(s)  == [kind |-> "str", val |-> s]
\* an argument that was not given
NoData   == [kind |-> "absent", val |-> EmptyFcn]

\* JavaScript truthiness of a JSON value (objects are truthy, null is not)
Truthy(j) ==
  \/ j.kind = "obj"
  \/ (j.kind = "num" /\ j.val # 0)
  \/ (j.kind = "str" /\ j.val # "")
\* typeof j === "object" : null and objects
TypeofObject(j) == j.kind \in {"obj", "null"}

(* ------------------------------------------------------------------ *)
(* Error messages, as the sequence of their parts                      *)
(* ------------------------------------------------------------------ *)
NoError == <<>>
\* new Error(`Token request failed: ${tokenResponse.statusText}`)
TokenRequestFailed(statusText) == <<"Token request failed: ", statusText>>
\* new Error(`User check failed: ${checkResponse.statusText}`)
UserCheckFailed(statusText) == <<"User check failed: ", statusText>>
\* the TypeError of a rejected fetch, the SyntaxError of a rejected json()
FetchFailed == <<"fetch failed">>
\* the TypeError of userData.exists on a null body
NullBodyError == <<"Cannot read properties of null (reading 'exists')">>
\* error: "No document number found for user"
NoDocumentError == <<"No document number found for user">>

(* ------------------------------------------------------------------ *)
(* Inputs of the tool invocations                                     *)
(* ------------------------------------------------------------------ *)
NoStr == "<absent>"
\* the channel argument when it is not given
NoChannel == <<NoStr>>
\* a number argument: given or not, integer or not, its integer part
NoNum == [given |-> FALSE, isInt |-> TRUE, val |-> 0]
IntArg(n) == [given |-> TRUE, isInt |-> TRUE, val |-> n]
FractionArg(n) == [given |-> TRUE, isInt |-> FALSE, val |-> n]

\* the names of the tools registered with mcp.tool
ToolNames ==
  {"ping", "initConversation", "requestPolicyConsent", "recordConsent",
   "saveDocNumber", "requestDocNumberConfirmation", "confirmDocNumber",
   "validateCurrentUser", "validateUserInSSO", "getState", "setState",
   "appendMessage", "getConversationSummary"}

\* the arguments of an invocation in which nothing is given
NoArgs ==
  [channel |-> NoChannel, externalId |-> NoStr, phone |-> NoStr,
   docNumber |-> NoStr, data |-> NoData, replace |-> FALSE,
   policyVersion |-> NoStr, accepted |-> NoStr, role |-> NoStr,
   content |-> NoStr, lastMessages |-> NoNum]

\* z.string().default("whatsapp")
DefaultChannel == Str_whatsapp
\* z.number().int().min(1).max(50).default(10)
MinLastMessages == 1
MaxLastMessages == 50
DefaultLastMessages == 10

\* the fields a tool's schema declares as z.string().min(1)
RequiredStrings(tool) ==
  CASE tool = "ping" -> {}
    [] tool = "recordConsent" -> {"externalId", "policyVersion"}
    [] tool \in {"saveDocNumber", "requestDocNumberConfirmation",
                 "validateUserInSSO"} -> {"externalId", "docNumber"}
    [] tool = "appendMessage" -> {"externalId", "role", "content"}
    [] OTHER -> {"externalId"}

\* variant: externalId declared z.string(), without min(1)
ValidString_AllowEmpty(v) == v # NoStr

\* z.string().min(1)
ValidString(v) == v # NoStr /\ v # ""

\* z.number().int().min(1).max(50).default(10)
ValidLastMessages(n) ==
  ~n.given \/ (n.isInt /\ MinLastMessages <= n.val /\ n.val <= MaxLastMessages)

\* the schema of the tool accepts the arguments
ValidArgs(tool, args) ==
  /\ \A f \in RequiredStrings(tool) : ValidString(args[f])
  /\ tool = "recordConsent" => args.accepted \in {"true", "false"}
  /\ tool = "setState" => args.data.kind = "obj"
  /\ tool = "getConversationSummary" => ValidLastMessages(args.lastMessages)

\* the schema's defaults
ChannelOrDefault(c) == IF c = NoChannel THEN DefaultChannel ELSE c
LastMessagesOrDefault(n) == IF n.given THEN n.val ELSE DefaultLastMessages

\* raw channel strings handed to the tools
ChannelInputs == {<<"W","e","b">>, Str_web, <<"x">>}
ExternalIds   == {"e1"}
PhoneInputs   == {NoStr, "p1"}
DocInputs     == {NoStr, "d1"}

StateKeys == {"a", "b", "c"}
SubKeys   == {"x", "y"}
\* values a key of the state may hold: scalars and one-level nested objects
NestedVals == {JObj(f) : f \in UNION {[{k} -> {1}] : k \in SubKeys}}
StateVals  == {JNum(n) : n \in 1..MaxNum} \cup NestedVals
\* data arguments of setState in sequential runs
DataInputs == {JObj(f) : f \in ObjectsOver(StateKeys, StateVals)}
\* data arguments of setState in concurrent runs
SmallDataInputs == {JObj(f) : f \in [{"a"} -> {JNum(1)}] \cup [{"b"} -> {JNum(1)}]}

(* ------------------------------------------------------------------ *)
(* State                                                              *)
(* ------------------------------------------------------------------ *)
VARIABLES
  users,               \* table User: row id = position, creation order
  conversations,       \* table Conversation: row id = position
  conversationStates,  \* table ConversationState
  task,                \* the running tool invocations (async handlers)
  initReturned,        \* history: results returned by initConversation
  preexisting,         \* history: ids of the User rows not created by the resolver
  written,             \* history: conversations whose state a tool has written
  lastReplaced,        \* history: data of the last completed setState if it replaced
  ssoTokenCache,       \* let ssoTokenCache: { token, expiresAt } | null
  now,                 \* Date.now()
  ssoCall,             \* the running getSSOToken calls
  chInput,             \* argument of a parseChannel call
  chOutput,            \* its result
  consents,            \* table Consent: row id = position, creation order
  messages,            \* table Message: row id = position, creation order
  lastCall,            \* history: the last getSSOToken call made on its own
  MCP_BEARER_TOKEN,    \* process.env.MCP_BEARER_TOKEN ?? ""
  transports,          \* const transports = new Map<sessionId, transport>
  request,             \* the HTTP request being handled
  httpLog              \* history: what the HTTP handler did for its requests

hist == <<initReturned, preexisting, written, lastReplaced>>

logVars == <<consents, messages>>

storeVars == <<users, conversations, conversationStates, task, hist, logVars>>

ssoVars == <<ssoTokenCache, now, ssoCall, lastCall>>

chanVars == <<chInput, chOutput>>

httpVars == <<MCP_BEARER_TOKEN, transports, request, httpLog>>

vars == <<storeVars, ssoVars, chanVars, httpVars>>

\* the answer of a fetch: response.ok, response.statusText
NoResponse == [arrived |-> FALSE, ok |-> FALSE, statusText |-> "none"]
OkResponse == [arrived |-> TRUE, ok |-> TRUE, statusText |-> "OK"]
NotOkResponse(statusText) == [arrived |-> TRUE, ok |-> FALSE, statusText |-> statusText]
\* the fetch rejected: there is no answer
NetworkFailure == [arrived |-> FALSE, ok |-> FALSE, statusText |-> "<rejected>"]
\* status texts of non-success answers (empty over HTTP/2)
FailureStatusTexts == {"Unauthorized", "Service Unavailable", ""}

\* the body of an answer of the existence check
NoBody == [isNull |-> FALSE, hasExists |-> FALSE, exists |-> FALSE]

\* a timestamp column: null or a clock value
NullTime == [isNull |-> TRUE, at |-> 0]
TimeAt(n) == [isNull |-> FALSE, at |-> n]

\* consent: null in the summary
NoConsent ==
  [isNull |-> TRUE, policyVersion |-> NoStr, accepted |-> FALSE,
   acceptedAt |-> NullTime]

\* args: the arguments as given; the fields after it: the validated
\* arguments and the handler's locals; res...: the result it returns
IdleTask ==
  [pc |-> "idle", tool |-> "none", args |-> NoArgs,
   channel |-> "none", externalId |-> NoStr,
   phone |-> NoStr, docNumber |-> NoStr, data |-> JNull, replace |-> FALSE,
   policyVersion |-> NoStr, accepted |-> FALSE, role |-> NoStr,
   content |-> NoStr, lastMessages |-> 0,
   found |-> 0, user |-> 0, userDoc |-> NoStr, conversation |-> 0,
   current |-> JNull, pending |-> {}, accessToken |-> "none",
   checkResponse |-> NoResponse, checkBody |-> NoBody, created |-> 0,
   resKind |-> "none", resData |-> JNull, resExists |-> FALSE,
   resError |-> NoError, resDoc |-> NoStr, resMessages |-> <<>>,
   resConsent |-> NoConsent, error |-> "none"]

\* a handler that returned
Done(tk) == [tk EXCEPT !.pc = "done"]

\* a handler that threw: the error leaves it
Failed(tk, error) == [tk EXCEPT !.pc = "failed", !.error = error]

(* ------------------------------------------------------------------ *)
(* Store operations: the prisma client calls                         *)
(* ------------------------------------------------------------------ *)
\* ids of the User rows with the compound key channel_externalId
UserIdsOf(rows, channel, externalId) ==
  {i \in 1..Len(rows) : rows[i].channel = channel /\ rows[i].externalId = externalId}

\* variant: the row is looked up by externalId alone
user_findUnique_ByExternalId(rows, channel, externalId) ==
  IF {i \in 1..Len(rows) : rows[i].externalId = externalId} = {} THEN 0
  ELSE CHOOSE i \in 1..Len(rows) :
         /\ rows[i].externalId = externalId
         /\ \A j \in 1..Len(rows) : rows[j].externalId = externalId => i <= j

\* findUnique by channel_externalId: the row id, 0 when there is none
user_findUnique(rows, channel, externalId) ==
  IF UserIdsOf(rows, channel, externalId) = {} THEN 0
  ELSE CHOOSE i \in UserIdsOf(rows, channel, externalId) :
         \A j \in UserIdsOf(rows, channel, externalId) : i <= j

\* variant: the upsert's include never reports a conversation
LatestConversation_None(convs, userId) == 0

\* include: { conversations: { orderBy: { createdAt: "desc" }, take: 1 } }
LatestConversation(convs, userId) ==
  LET own == {i \in 1..Len(convs) : convs[i].userId = userId} IN
  IF own = {} THEN 0 ELSE CHOOSE i \in own : \A j \in own : j <= i

\* the phone and the docNumber a handler hands to ensureUserAndConversation:
\* only initConversation passes them on
ResolverPhone(tk) == IF tk.tool = "initConversation" THEN tk.phone ELSE NoStr
ResolverDocNumber(tk) == IF tk.tool = "initConversation" THEN tk.docNumber ELSE NoStr

\* variant: update: { phone: args.phone ?? null, docNumber: args.docNumber ?? null }
user_update_Clearing(row, phone, docNumber) ==
  [row EXCEPT !.phone = phone, !.docNumber = docNumber]

\* update: { phone: args.phone ?? undefined, docNumber: args.docNumber ?? undefined }
user_update(row, phone, docNumber) ==
  [row EXCEPT !.phone = IF phone = NoStr THEN @ ELSE phone,
              !.docNumber = IF docNumber = NoStr THEN @ ELSE docNumber]

\* ids of the ConversationState rows of a conversation
StateIdsOf(rows, conversationId) ==
  {i \in 1..Len(rows) : rows[i].conversationId = conversationId}

\* variant: a new row starts with a default step instead of {}
conversationState_upsert_Seeded(rows, conversationId) ==
  IF StateIdsOf(rows, conversationId) = {}
  THEN Append(rows, [conversationId |-> conversationId,
                     data |-> JObj([k \in {"c"} |-> JNum(1)])])
  ELSE rows

\* variant: the update branch writes data: {} as well
conversationState_upsert_Reset(rows, conversationId) ==
  IF StateIdsOf(rows, conversationId) = {}
  THEN Append(rows, [conversationId |-> conversationId, data |-> EmptyObj])
  ELSE [i \in 1..Len(rows) |->
          IF rows[i].conversationId = conversationId
          THEN [rows[i] EXCEPT !.data = EmptyObj] ELSE rows[i]]

\* variant: an update instead of the upsert, a missing row stays missing
conversationState_upsert_UpdateOnly(rows, conversationId) == rows

\* conversationState.upsert: create { data: {} } when absent, update: {}
conversationState_upsert(rows, conversationId) ==
  IF StateIdsOf(rows, conversationId) = {}
  THEN Append(rows, [conversationId |-> conversationId, data |-> EmptyObj])
  ELSE rows

\* conversationState.findUnique: the row's data, null when there is no row
conversationState_findUnique(rows, conversationId) ==
  IF StateIdsOf(rows, conversationId) = {} THEN JNull
  ELSE rows[CHOOSE i \in StateIdsOf(rows, conversationId) : TRUE].data

\* conversationState.update: data of the conversation's row(s) replaced
conversationState_update(rows, conversationId, data) ==
  [i \in 1..Len(rows) |->
     IF rows[i].conversationId = conversationId
     THEN [rows[i] EXCEPT !.data = data] ELSE rows[i]]

(* ------------------------------------------------------------------ *)
(* State merger of setState, result of getState                        *)
(* ------------------------------------------------------------------ *)
\* variant: spread in the other order, { ...data, ...current.data }
Spread_PriorWins(prior, data) ==
  JObj([k \in (DOMAIN prior.val) \cup (DOMAIN data.val) |->
          IF k \in DOMAIN prior.val THEN prior.val[k] ELSE data.val[k]])

\* variant: objects under the same key are merged as well
Spread_Deep(prior, data) ==
  JObj([k \in (DOMAIN prior.val) \cup (DOMAIN data.val) |->
          IF k \notin DOMAIN data.val THEN prior.val[k]
          ELSE IF k \in DOMAIN prior.val /\ prior.val[k].kind = "obj"
                  /\ data.val[k].kind = "obj"
               THEN JObj([j \in (DOMAIN prior.val[k].val) \cup (DOMAIN data.val[k].val) |->
                            IF j \in DOMAIN data.val[k].val THEN data.val[k].val[j]
                            ELSE prior.val[k].val[j]])
               ELSE data.val[k]])

\* { ...(current.data as any), ...data }
Spread(prior, data) ==
  JObj([k \in (DOMAIN prior.val) \cup (DOMAIN data.val) |->
          IF k \in DOMAIN data.val THEN data.val[k] ELSE prior.val[k]])

\* variant: the replace flag is ignored
setState_nextData_AlwaysMerge(replace, current, data) ==
  IF ~Truthy(current) \/ ~TypeofObject(current) THEN data ELSE Spread(current, data)

\* replace || !current?.data || typeof current.data !== "object" ? data : {...}
setState_nextData(replace, current, data) ==
  IF replace \/ ~Truthy(current) \/ ~TypeofObject(current)
  THEN data
  ELSE Spread(current, data)

\* state?.data ?? {}
getState_result(current) == IF current = JNull THEN EmptyObj ELSE current

(* ------------------------------------------------------------------ *)
(* Tool invocations.  A handler runs up to its first await: it            *)
(* normalises the channel and issues prisma.user.upsert, whose first      *)
(* half looks the row up by channel_externalId.                           *)
(* ------------------------------------------------------------------ *)
\* the handler's view of the validated arguments
Validated(tool, args) ==
  [IdleTask EXCEPT !.tool = tool, !.args = args,
                   !.channel = parseChannel(ChannelOrDefault(args.channel)),
                   !.externalId = args.externalId, !.phone = args.phone,
                   !.docNumber = args.docNumber,
                   !.data = IF args.data = NoData THEN JNull ELSE args.data,
                   !.replace = args.replace,
                   !.policyVersion = args.policyVersion,
                   !.accepted = (args.accepted = "true"),
                   !.role = args.role, !.content = args.content,
                   !.lastMessages = LastMessagesOrDefault(args.lastMessages)]

\* the tools that start with ensureUserAndConversation
ResolvingTools == ToolNames \ {"ping", "validateUserInSSO"}

\* the handler up to its first await
Entered(tool, args, userRows) ==
  LET tk == Validated(tool, args) IN
  IF tool = "ping" THEN [tk EXCEPT !.pc = "done", !.resKind = "pong"]
  ELSE IF tool \in ResolvingTools
  THEN [tk EXCEPT !.pc = "user_upsert_write",
                  !.found = user_findUnique(userRows, tk.channel, tk.externalId)]
  ELSE [tk EXCEPT !.pc = "sso_enter"]

\* the schema rejects the arguments: the handler is not called
Rejected(tool, args) ==
  [IdleTask EXCEPT !.pc = "rejected", !.tool = tool, !.args = args,
                   !.error = "InvalidArguments"]

Invoke(t, tool, args) ==
  /\ task[t].pc = "idle"
  /\ task' = [task EXCEPT ![t] =
       IF ValidArgs(tool, args) THEN Entered(tool, args, users)
       ELSE Rejected(tool, args)]
  /\ UNCHANGED <<users, conversations, conversationStates, hist>>
  /\ UNCHANGED <<logVars, ssoVars, chanVars, httpVars>>

initConversation(t, rawChannel, externalId, phone, docNumber) ==
  Invoke(t, "initConversation",
         [NoArgs EXCEPT !.channel = rawChannel, !.externalId = externalId,
                        !.phone = phone, !.docNumber = docNumber])

getState(t, rawChannel, externalId) ==
  Invoke(t, "getState",
         [NoArgs EXCEPT !.channel = rawChannel, !.externalId = externalId])

setState(t, rawChannel, externalId, data, replace) ==
  Invoke(t, "setState",
         [NoArgs EXCEPT !.channel = rawChannel, !.externalId = externalId,
                        !.data = data, !.replace = replace])

(* ------------------------------------------------------------------ *)
(* ensureUserAndConversation, one action per store round trip          *)
(* ------------------------------------------------------------------ *)
\* variant: no unique constraint on (channel, externalId)
UniqueUserAdmits_NoConstraint(rows, channel, externalId) == TRUE

\* the unique constraint on (channel, externalId) admits the insert
UniqueUserAdmits(rows, channel, externalId) ==
  UserIdsOf(rows, channel, externalId) = {}

\* variant: the create branch without the nested conversation
NestedConversationCreate_Omitted(convs, userId) == convs

\* conversations: { create: {} } nested in the create branch of the upsert
NestedConversationCreate(convs, userId) == Append(convs, [userId |-> userId])

\* the step after the upsert: fallback create, or the state upsert
AfterUpsertPc(conversationId) ==
  IF conversationId = 0 THEN "conversation_create" ELSE "conversationState_upsert"

\* prisma.user.upsert, second half, create branch with the nested
\* conversations: { create: {} } in the same transaction
UserUpsertCreate(t) ==
  /\ task[t].pc = "user_upsert_write"
  /\ task[t].found = 0
  /\ IF UniqueUserAdmits(users, task[t].channel, task[t].externalId)
     THEN /\ users' = Append(users, [channel |-> task[t].channel,
                                     externalId |-> task[t].externalId,
                                     phone |-> ResolverPhone(task[t]),
                                     docNumber |-> ResolverDocNumber(task[t])])
          /\ conversations' = NestedConversationCreate(conversations, Len(users) + 1)
          /\ task' = [task EXCEPT
               ![t].user = Len(users) + 1,
               ![t].userDoc = ResolverDocNumber(task[t]),
               ![t].conversation = LatestConversation(conversations', Len(users) + 1),
               ![t].pc = AfterUpsertPc(LatestConversation(conversations', Len(users) + 1))]
     ELSE \* unique constraint violation: the upsert rejects
          /\ task' = [task EXCEPT ![t] = Failed(task[t], "UniqueConstraint")]
          /\ UNCHANGED <<users, conversations>>
  /\ UNCHANGED <<conversationStates, hist>>
  /\ UNCHANGED <<logVars, ssoVars, chanVars, httpVars>>

\* prisma.user.upsert, second half, update branch
UserUpsertUpdate(t) ==
  /\ task[t].pc = "user_upsert_write"
  /\ task[t].found # 0
  /\ users' = [users EXCEPT ![task[t].found] =
                 user_update(@, ResolverPhone(task[t]), ResolverDocNumber(task[t]))]
  /\ task' = [task EXCEPT
       ![t].user = task[t].found,
       ![t].userDoc = users'[task[t].found].docNumber,
       ![t].conversation = LatestConversation(conversations, task[t].found),
       ![t].pc = AfterUpsertPc(LatestConversation(conversations, task[t].found))]
  /\ UNCHANGED <<conversations, conversationStates, hist>>
  /\ UNCHANGED <<logVars, ssoVars, chanVars, httpVars>>

\* if (!conversation) conversation = await prisma.conversation.create(...)
ConversationCreate(t) ==
  /\ task[t].pc = "conversation_create"
  /\ conversations' = Append(conversations, [userId |-> task[t].user])
  /\ task' = [task EXCEPT ![t].conversation = Len(conversations) + 1,
                          ![t].pc = "conversationState_upsert"]
  /\ UNCHANGED <<users, conversationStates, hist>>
  /\ UNCHANGED <<logVars, ssoVars, chanVars, httpVars>>

\* where the handler continues once the resolver has returned
AfterResolverPc(tool) ==
  CASE tool \in {"initConversation", "requestPolicyConsent"} -> "done"
    [] tool = "recordConsent" -> "consent_create"
    [] tool = "saveDocNumber" -> "user_update"
    [] tool \in {"requestDocNumberConfirmation", "confirmDocNumber"} -> "state_overwrite"
    [] tool = "validateCurrentUser" -> "sso_enter"
    [] tool = "appendMessage" -> "message_create"
    [] tool = "getConversationSummary" -> "summary"
    [] OTHER -> "state_findUnique"

\* !user.docNumber : null and the empty string
FalsyStr(v) == v = NoStr \/ v = ""

\* the three queries getConversationSummary hands to Promise.all
SummaryQueries == {"state", "consent", "messages"}

\* variant: validateCurrentUser goes on to the SSO without looking at
\* user.docNumber
AfterResolver_Unchecked(tk) ==
  IF AfterResolverPc(tk.tool) = "done"
  THEN [Done(tk) EXCEPT !.resKind = "ok"]
  ELSE IF tk.tool = "getConversationSummary"
  THEN [tk EXCEPT !.pc = "summary", !.pending = SummaryQueries]
  ELSE [tk EXCEPT !.pc = AfterResolverPc(tk.tool)]

\* the handler from the return of the resolver to its next await
AfterResolver(tk) ==
  IF tk.tool = "validateCurrentUser" /\ FalsyStr(tk.userDoc)
  THEN [Done(tk) EXCEPT !.resKind = "no_document", !.resExists = FALSE,
                        !.resError = NoDocumentError]
  ELSE IF AfterResolverPc(tk.tool) = "done"
  THEN [Done(tk) EXCEPT !.resKind = "ok"]
  ELSE IF tk.tool = "getConversationSummary"
  THEN [tk EXCEPT !.pc = "summary", !.pending = SummaryQueries]
  ELSE [tk EXCEPT !.pc = AfterResolverPc(tk.tool)]

\* await prisma.conversationState.upsert(...); return { user, conversation }
ConversationStateUpsert(t) ==
  /\ task[t].pc = "conversationState_upsert"
  /\ conversationStates' =
       conversationState_upsert(conversationStates, task[t].conversation)
  /\ task' = [task EXCEPT ![t] = AfterResolver(task[t])]
  /\ initReturned' =
       IF task[t].tool = "initConversation"
       THEN initReturned \cup {[channel |-> task[t].channel,
                                externalId |-> task[t].externalId,
                                existed |-> task[t].found # 0,
                                userId |-> task[t].user,
                                conversationId |-> task[t].conversation]}
       ELSE initReturned
  /\ UNCHANGED <<users, conversations, preexisting, written, lastReplaced>>
  /\ UNCHANGED <<logVars, ssoVars, chanVars, httpVars>>

(* ------------------------------------------------------------------ *)
(* Bodies of getState and setState                                     *)
(* ------------------------------------------------------------------ *)
\* prisma.conversationState.findUnique({ where: { conversationId } })
StateFindUnique(t) ==
  /\ task[t].pc = "state_findUnique"
  /\ LET row == conversationState_findUnique(conversationStates,
                                             task[t].conversation) IN
     task' = [task EXCEPT ![t] =
       IF task[t].tool = "getState"
       THEN [Done(task[t]) EXCEPT !.current = row, !.resData = getState_result(row)]
       ELSE [task[t] EXCEPT !.current = row, !.pc = "state_update"]]
  /\ UNCHANGED <<users, conversations, conversationStates, hist>>
  /\ UNCHANGED <<logVars, ssoVars, chanVars, httpVars>>

\* prisma.conversationState.update({ where, data: { data: nextData } })
StateUpdate(t) ==
  /\ task[t].pc = "state_update"
  /\ IF StateIdsOf(conversationStates, task[t].conversation) = {}
     THEN \* record to update not found
          /\ task' = [task EXCEPT ![t] = Failed(task[t], "RecordNotFound")]
          /\ UNCHANGED <<conversationStates, written, lastReplaced>>
     ELSE /\ conversationStates' =
               conversationState_update(conversationStates, task[t].conversation,
                  setState_nextData(task[t].replace, task[t].current, task[t].data))
          /\ task' = [task EXCEPT ![t] = Done(task[t])]
          /\ written' = written \cup {task[t].conversation}
          /\ lastReplaced' = IF task[t].replace THEN task[t].data ELSE JNull
  /\ UNCHANGED <<users, conversations, initReturned, preexisting>>
  /\ UNCHANGED <<logVars, ssoVars, chanVars, httpVars>>

(* ------------------------------------------------------------------ *)
(* Bodies of saveDocNumber and of the doc-confirmation tools            *)
(* ------------------------------------------------------------------ *)
\* prisma.user.update({ where: { id: user.id }, data: { docNumber } })
UserUpdate(t) ==
  /\ task[t].pc = "user_update"
  /\ users' = [users EXCEPT ![task[t].user].docNumber = task[t].docNumber]
  /\ task' = [task EXCEPT ![t] =
       [Done(task[t]) EXCEPT !.resKind = "ok",
                             !.resDoc = users'[task[t].user].docNumber]]
  /\ UNCHANGED <<conversations, conversationStates, hist>>
  /\ UNCHANGED <<logVars, ssoVars, chanVars, httpVars>>

\* data: { step: "awaiting_doc_confirmation", docNumber } and
\* data: { step: "document_confirmed" }
DocStepState(tool, docNumber) ==
  IF tool = "requestDocNumberConfirmation"
  THEN JObj([k \in {"step", "docNumber"} |->
               IF k = "step" THEN JStr("awaiting_doc_confirmation")
               ELSE JStr(docNumber)])
  ELSE JObj([k \in {"step"} |-> JStr("document_confirmed")])

\* variant: the step is merged into the stored state as setState does
StateOverwrite_Merging(t) ==
  /\ task[t].pc = "state_overwrite"
  /\ IF StateIdsOf(conversationStates, task[t].conversation) = {}
     THEN /\ task' = [task EXCEPT ![t] = Failed(task[t], "RecordNotFound")]
          /\ UNCHANGED <<conversationStates, written, lastReplaced>>
     ELSE /\ conversationStates' =
               conversationState_update(conversationStates, task[t].conversation,
                  Spread(conversationState_findUnique(conversationStates,
                                                      task[t].conversation),
                         DocStepState(task[t].tool, task[t].docNumber)))
          /\ task' = [task EXCEPT ![t] = [Done(task[t]) EXCEPT !.resKind = "ok"]]
          /\ written' = written \cup {task[t].conversation}
          /\ lastReplaced' = JNull
  /\ UNCHANGED <<users, conversations, initReturned, preexisting>>
  /\ UNCHANGED <<logVars, ssoVars, chanVars, httpVars>>

\* prisma.conversationState.update of the doc-confirmation tools
StateOverwrite(t) ==
  /\ task[t].pc = "state_overwrite"
  /\ IF StateIdsOf(conversationStates, task[t].conversation) = {}
     THEN /\ task' = [task EXCEPT ![t] = Failed(task[t], "RecordNotFound")]
          /\ UNCHANGED <<conversationStates, written, lastReplaced>>
     ELSE /\ conversationStates' =
               conversationState_update(conversationStates, task[t].conversation,
                  DocStepState(task[t].tool, task[t].docNumber))
          /\ task' = [task EXCEPT ![t] = [Done(task[t]) EXCEPT !.resKind = "ok"]]
          /\ written' = written \cup {task[t].conversation}
          /\ lastReplaced' = JNull
  /\ UNCHANGED <<users, conversations, initReturned, preexisting>>
  /\ UNCHANGED <<logVars, ssoVars, chanVars, httpVars>>

(* ------------------------------------------------------------------ *)
(* Bodies of recordConsent, appendMessage, getConversationSummary      *)
(* ------------------------------------------------------------------ *)
\* variant: the timestamp is set whatever the answer
AcceptedAt_Always(accepted, t) == TimeAt(t)

\* acceptedAt: accepted ? new Date() : null
AcceptedAt(accepted, t) == IF accepted THEN TimeAt(t) ELSE NullTime

\* prisma.consent.create
ConsentCreate(t) ==
  /\ task[t].pc = "consent_create"
  /\ consents' = Append(consents,
       [conversationId |-> task[t].conversation,
        policyVersion |-> task[t].policyVersion,
        accepted |-> task[t].accepted,
        acceptedAt |-> AcceptedAt(task[t].accepted, now),
        meta |-> EmptyObj])
  /\ task' = [task EXCEPT ![t] =
       [Done(task[t]) EXCEPT !.resKind = "ok", !.created = Len(consents) + 1]]
  /\ UNCHANGED <<users, conversations, conversationStates, hist, messages>>
  /\ UNCHANGED <<ssoVars, chanVars, httpVars>>

\* variant: the conversation keeps one Message row, rewritten by each call
MessageCreate_Replacing(t) ==
  /\ task[t].pc = "message_create"
  /\ messages' =
       LET row == [conversationId |-> task[t].conversation, role |-> task[t].role,
                   content |-> task[t].content, meta |-> EmptyObj]
       IN IF messages = <<>> THEN <<row>>
          ELSE [messages EXCEPT ![Len(messages)] = row]
  /\ task' = [task EXCEPT ![t] =
       [Done(task[t]) EXCEPT !.resKind = "ok", !.created = Len(messages')]]
  /\ UNCHANGED <<users, conversations, conversationStates, hist, consents>>
  /\ UNCHANGED <<ssoVars, chanVars, httpVars>>

\* prisma.message.create
MessageCreate(t) ==
  /\ task[t].pc = "message_create"
  /\ messages' = Append(messages,
       [conversationId |-> task[t].conversation, role |-> task[t].role,
        content |-> task[t].content, meta |-> EmptyObj])
  /\ task' = [task EXCEPT ![t] =
       [Done(task[t]) EXCEPT !.resKind = "ok", !.created = Len(messages) + 1]]
  /\ UNCHANGED <<users, conversations, conversationStates, hist, consents>>
  /\ UNCHANGED <<ssoVars, chanVars, httpVars>>

\* the ids of a set of rows, latest first (orderBy: { createdAt: "desc" })
RECURSIVE CreatedAtDesc(_)
CreatedAtDesc(ids) ==
  IF ids = {} THEN <<>>
  ELSE LET last == CHOOSE i \in ids : \A j \in ids : j <= i
       IN <<last>> \o CreatedAtDesc(ids \ {last})

\* take: n
Take(seq, n) == SubSeq(seq, 1, IF n < Len(seq) THEN n ELSE Len(seq))

\* Array.prototype.reverse
Reverse(seq) == [i \in 1..Len(seq) |-> seq[Len(seq) + 1 - i]]

\* variant: orderBy: { createdAt: "asc" }
consent_findFirst_Oldest(rows, conversationId) ==
  LET own == {i \in 1..Len(rows) : rows[i].conversationId = conversationId} IN
  IF own = {} THEN 0 ELSE CHOOSE i \in own : \A j \in own : i <= j

\* prisma.consent.findFirst({ where, orderBy: { createdAt: "desc" } }):
\* the row id, 0 for null
consent_findFirst(rows, conversationId) ==
  LET own == {i \in 1..Len(rows) : rows[i].conversationId = conversationId} IN
  IF own = {} THEN 0 ELSE CreatedAtDesc(own)[1]

\* consent: lastConsent ? { policyVersion, accepted, acceptedAt } : null
SummaryConsent(rows, lastConsent) ==
  IF lastConsent = 0 THEN NoConsent
  ELSE [isNull |-> FALSE,
        policyVersion |-> rows[lastConsent].policyVersion,
        accepted |-> rows[lastConsent].accepted,
        acceptedAt |-> rows[lastConsent].acceptedAt]

\* prisma.message.findMany({ where, orderBy: { createdAt: "desc" }, take })
message_findMany(rows, conversationId, n) ==
  Take(CreatedAtDesc({i \in 1..Len(rows) :
                        rows[i].conversationId = conversationId}), n)

\* variant: the rows as the query returned them
SummaryMessages_NotReversed(found) == found

\* messages: messages.reverse()
SummaryMessages(found) == Reverse(found)

\* one of the three queries of Promise.all answers; the handler returns
\* when all have
SummaryQuery(t) ==
  /\ task[t].pc = "summary"
  /\ \E q \in task[t].pending :
       LET c == task[t].conversation
           tk == [task[t] EXCEPT
                    !.pending = @ \ {q},
                    !.resData =
                       IF q = "state"
                       THEN getState_result(
                              conversationState_findUnique(conversationStates, c))
                       ELSE @,
                    !.resConsent =
                       IF q = "consent"
                       THEN SummaryConsent(consents, consent_findFirst(consents, c))
                       ELSE @,
                    !.resMessages =
                       IF q = "messages"
                       THEN SummaryMessages(
                              message_findMany(messages, c, task[t].lastMessages))
                       ELSE @]
       IN task' = [task EXCEPT ![t] =
            IF tk.pending = {} THEN [Done(tk) EXCEPT !.resKind = "summary"] ELSE tk]
  /\ UNCHANGED <<users, conversations, conversationStates, hist>>
  /\ UNCHANGED <<logVars, ssoVars, chanVars, httpVars>>

(* ------------------------------------------------------------------ *)
(* Store failures                                                      *)
(* ------------------------------------------------------------------ *)
\* any store round trip may reject (connection failure); nothing is retried
StorePcs == {"user_upsert_write", "conversation_create",
             "conversationState_upsert", "state_findUnique", "state_update",
             "user_update", "state_overwrite", "consent_create",
             "message_create", "summary"}

\* variant: the handler catches the rejection and returns an error result
PersistenceError_Caught(t) ==
  /\ task[t].pc \in StorePcs
  /\ task' = [task EXCEPT ![t] =
       [Done(task[t]) EXCEPT !.resKind = "degraded", !.error = "StoreUnavailable"]]
  /\ UNCHANGED <<users, conversations, conversationStates, hist>>
  /\ UNCHANGED <<logVars, ssoVars, chanVars, httpVars>>

PersistenceError(t) ==
  /\ task[t].pc \in StorePcs
  /\ task' = [task EXCEPT ![t] = Failed(task[t], "StoreUnavailable")]
  /\ UNCHANGED <<users, conversations, conversationStates, hist>>
  /\ UNCHANGED <<logVars, ssoVars, chanVars, httpVars>>

(* ------------------------------------------------------------------ *)
(* parseChannel as a call                                              *)
(* ------------------------------------------------------------------ *)
UpperChar(c) ==
  CASE c = "w" -> "W" [] c = "h" -> "H" [] c = "a" -> "A" [] c = "t" -> "T"
    [] c = "s" -> "S" [] c = "p" -> "P" [] c = "e" -> "E" [] c = "b" -> "B"
    [] c = "x" -> "X"
    [] OTHER -> c

Alphabet == {"w", "h", "a", "t", "s", "p", "e", "b", "x",
             "W", "H", "A", "T", "S", "P", "E", "B", "X", " "}

\* every spelling of w in upper and lower case
CaseVariants(w) ==
  {[i \in 1..Len(w) |-> IF i \in U THEN UpperChar(w[i]) ELSE w[i]] :
     U \in SUBSET (1..Len(w))}

\* w with one character more, one less, or one replaced
NearMisses(w) ==
  {Append(w, c) : c \in Alphabet} \cup {<<c>> \o w : c \in Alphabet}
    \cup {SubSeq(w, 1, Len(w) - 1), SubSeq(w, 2, Len(w))}
    \cup {[w EXCEPT ![i] = c] : i \in 1..Len(w), c \in {"x", " "}}

ChannelStrings ==
  CaseVariants(Str_whatsapp) \cup CaseVariants(Str_web)
    \cup NearMisses(Str_whatsapp) \cup NearMisses(Str_web)
    \cup UNION {[1..n -> Alphabet] : n \in 0..MaxShortLen}

ParseChannelCall ==
  /\ chOutput = "none"
  /\ chOutput' = parseChannel(chInput)
  /\ UNCHANGED <<chInput, storeVars, ssoVars, httpVars>>

(* ------------------------------------------------------------------ *)
(* getSSOToken and the token cache                                     *)
(* ------------------------------------------------------------------ *)
\* tokenData.expires_in || 300
DefaultExpiresIn == 300
\* (expiresIn - 60) * 1000
SafetyMarginSec == 60
MsPerSec == 1000

NoCache == [has |-> FALSE, token |-> "none", expiresAt |-> 0]

\* bodies of a successful token response
Tokens == {"tok1", "tok2"}
ExpiresInValues == {0, 30, 60, 90, 120}
TokenPayloads ==
  [access_token : Tokens, hasExpiresIn : {TRUE}, expires_in : ExpiresInValues]
    \cup [access_token : Tokens, hasExpiresIn : {FALSE}, expires_in : {0}]
NoPayload == [access_token |-> "none", hasExpiresIn |-> FALSE, expires_in |-> 0]

\* cacheAtEntry (history): the slot as the call found it
IdleCall == [pc |-> "idle", ret |-> "none", reqs |-> 0, saw |-> "none",
             payload |-> NoPayload, error |-> NoError, response |-> NoResponse,
             cacheAtEntry |-> NoCache]

\* variant: an entry is still served at its expiry instant
CacheFresh_Inclusive(cache, t) == cache.has /\ t <= cache.expiresAt

\* ssoTokenCache && Date.now() < ssoTokenCache.expiresAt
CacheFresh(cache, t) == cache.has /\ t < cache.expiresAt

\* const expiresIn = tokenData.expires_in || 300
ExpiresIn(payload) ==
  IF payload.hasExpiresIn /\ payload.expires_in # 0
  THEN payload.expires_in ELSE DefaultExpiresIn

\* variant: expiresAt: Date.now() + expiresIn * 1000, without the margin
ExpiresAt_NoMargin(t, payload) == t + ExpiresIn(payload) * MsPerSec

\* expiresAt: Date.now() + (expiresIn - 60) * 1000
ExpiresAt(t, payload) == t + (ExpiresIn(payload) - SafetyMarginSec) * MsPerSec

\* the call up to its first await: the cache test, then the fetch
getSSOToken_enter(cache, t) ==
  IF CacheFresh(cache, t)
  THEN [IdleCall EXCEPT !.pc = "returned", !.ret = cache.token,
                        !.saw = "fresh", !.cacheAtEntry = cache]
  ELSE [IdleCall EXCEPT !.pc = "fetch", !.reqs = 1,
                        !.saw = IF cache.has THEN "expired" ELSE "empty",
                        !.cacheAtEntry = cache]

\* a getSSOToken call on its own
getSSOToken(c) ==
  /\ ssoCall[c].pc = "idle"
  /\ ssoCall' = [ssoCall EXCEPT ![c] = getSSOToken_enter(ssoTokenCache, now)]
  /\ UNCHANGED <<ssoTokenCache, now, lastCall, storeVars, chanVars, httpVars>>

\* the token endpoint answered with a success status and one of the bodies
TokenResponseOkOf(c, bodies) ==
  /\ ssoCall[c].pc = "fetch"
  /\ \E body \in bodies :
       ssoCall' = [ssoCall EXCEPT ![c].pc = "json", ![c].payload = body,
                                  ![c].response = OkResponse]
  /\ UNCHANGED <<ssoTokenCache, now, lastCall, storeVars, chanVars, httpVars>>

TokenResponseOk(c) == TokenResponseOkOf(c, TokenPayloads)

\* variant: the status of the answer is not looked at and its body is
\* taken for a token response
TokenResponseNotOk_Unchecked(c) ==
  /\ ssoCall[c].pc = "fetch"
  /\ \E st \in FailureStatusTexts :
       ssoCall' = [ssoCall EXCEPT ![c].pc = "json",
                                  ![c].payload = [NoPayload EXCEPT !.access_token = "undefined"],
                                  ![c].response = NotOkResponse(st)]
  /\ UNCHANGED <<ssoTokenCache, now, lastCall, storeVars, chanVars, httpVars>>

\* if (!tokenResponse.ok) throw new Error("Token request failed: ...")
TokenResponseNotOk(c) ==
  /\ ssoCall[c].pc = "fetch"
  /\ \E st \in FailureStatusTexts :
       ssoCall' = [ssoCall EXCEPT ![c].pc = "threw",
                                  ![c].error = TokenRequestFailed(st),
                                  ![c].response = NotOkResponse(st)]
  /\ UNCHANGED <<ssoTokenCache, now, lastCall, storeVars, chanVars, httpVars>>

\* fetch or tokenResponse.json() rejected
TokenNetworkError(c) ==
  /\ ssoCall[c].pc \in {"fetch", "json"}
  /\ ssoCall' = [ssoCall EXCEPT ![c].pc = "threw", ![c].error = FetchFailed]
  /\ UNCHANGED <<ssoTokenCache, now, lastCall, storeVars, chanVars, httpVars>>

\* variant: the token is replaced and an expiresAt already in the slot is kept
TokenStore_TokenOnly(c) ==
  /\ ssoCall[c].pc = "json"
  /\ ssoTokenCache' = [has |-> TRUE, token |-> ssoCall[c].payload.access_token,
                       expiresAt |-> IF ssoTokenCache.has THEN ssoTokenCache.expiresAt
                                     ELSE ExpiresAt(now, ssoCall[c].payload)]
  /\ ssoCall' = [ssoCall EXCEPT ![c].pc = "returned",
                                ![c].ret = ssoCall[c].payload.access_token]
  /\ UNCHANGED <<now, lastCall, storeVars, chanVars, httpVars>>

\* ssoTokenCache = { token, expiresAt }; return tokenData.access_token
TokenStore(c) ==
  /\ ssoCall[c].pc = "json"
  /\ ssoTokenCache' = [has |-> TRUE, token |-> ssoCall[c].payload.access_token,
                       expiresAt |-> ExpiresAt(now, ssoCall[c].payload)]
  /\ ssoCall' = [ssoCall EXCEPT ![c].pc = "returned",
                                ![c].ret = ssoCall[c].payload.access_token]
  /\ UNCHANGED <<now, lastCall, storeVars, chanVars, httpVars>>

\* the token, or the error, has left getSSOToken
TokenReturn(c) ==
  /\ ssoCall[c].pc \in {"returned", "threw"}
  /\ ssoCall' = [ssoCall EXCEPT ![c] = IdleCall]
  /\ lastCall' = [lastCall EXCEPT ![c] = ssoCall[c]]
  /\ UNCHANGED <<ssoTokenCache, now, storeVars, chanVars, httpVars>>

\* time passes
Tick ==
  /\ now < MaxTicks * TickMs
  /\ now' = now + TickMs
  /\ UNCHANGED <<ssoTokenCache, ssoCall, lastCall, storeVars, chanVars, httpVars>>

\* the result, or the error, has left the handler
Return(t) ==
  /\ task[t].pc \in {"done", "failed", "rejected"}
  /\ task' = [task EXCEPT ![t] = IdleTask]
  /\ UNCHANGED <<users, conversations, conversationStates, hist>>
  /\ UNCHANGED <<logVars, ssoVars, chanVars, httpVars>>

(* ------------------------------------------------------------------ *)
(* Bodies of validateCurrentUser and validateUserInSSO: the try block  *)
(* around getSSOToken and the existence check, and its catch            *)
(* ------------------------------------------------------------------ *)
\* the document the check is made for: user.docNumber, or the argument
SsoDoc(tk) == IF tk.tool = "validateCurrentUser" THEN tk.userDoc ELSE tk.docNumber

\* bodies of the answers of the existence check
CheckBodies ==
  {[isNull |-> TRUE, hasExists |-> FALSE, exists |-> FALSE],
   [isNull |-> FALSE, hasExists |-> FALSE, exists |-> FALSE],
   [isNull |-> FALSE, hasExists |-> TRUE, exists |-> FALSE],
   [isNull |-> FALSE, hasExists |-> TRUE, exists |-> TRUE]}

\* variant: no catch, the error leaves the handler
Degraded_Rethrown(tk, message) == Failed(tk, "SsoFailure")

\* catch (error) { return { exists: false, error: error.message, docNumber } }
Degraded(tk, message) ==
  [Done(tk) EXCEPT !.resKind = "sso_degraded", !.resExists = FALSE,
                   !.resError = message, !.resDoc = SsoDoc(tk)]

\* const accessToken = await getSSOToken(), up to the first await of the call
SsoEnter(t) ==
  /\ task[t].pc = "sso_enter"
  /\ ssoCall[t].pc = "idle"
  /\ ssoCall' = [ssoCall EXCEPT ![t] = getSSOToken_enter(ssoTokenCache, now)]
  /\ task' = [task EXCEPT ![t].pc = "sso_token"]
  /\ UNCHANGED <<users, conversations, conversationStates, hist, logVars>>
  /\ UNCHANGED <<ssoTokenCache, now, lastCall, chanVars, httpVars>>

\* getSSOToken returned the token, or threw into the catch block
SsoTokenResult(t) ==
  /\ task[t].pc = "sso_token"
  /\ ssoCall[t].pc \in {"returned", "threw"}
  /\ task' = [task EXCEPT ![t] =
       IF ssoCall[t].pc = "returned"
       THEN [task[t] EXCEPT !.pc = "sso_check", !.accessToken = ssoCall[t].ret]
       ELSE Degraded(task[t], ssoCall[t].error)]
  /\ ssoCall' = [ssoCall EXCEPT ![t] = IdleCall]
  /\ UNCHANGED <<users, conversations, conversationStates, hist, logVars>>
  /\ UNCHANGED <<ssoTokenCache, now, lastCall, chanVars, httpVars>>

\* the existence check answered with a success status
CheckResponseOk(t) ==
  /\ task[t].pc = "sso_check"
  /\ \E body \in CheckBodies :
       task' = [task EXCEPT ![t].pc = "sso_check_json", ![t].checkBody = body,
                            ![t].checkResponse = OkResponse]
  /\ UNCHANGED <<users, conversations, conversationStates, hist>>
  /\ UNCHANGED <<logVars, ssoVars, chanVars, httpVars>>

\* if (!checkResponse.ok) throw new Error("User check failed: ...")
CheckResponseNotOk(t) ==
  /\ task[t].pc = "sso_check"
  /\ \E st \in FailureStatusTexts :
       task' = [task EXCEPT ![t] =
         Degraded([task[t] EXCEPT !.checkResponse = NotOkResponse(st)],
                  UserCheckFailed(st))]
  /\ UNCHANGED <<users, conversations, conversationStates, hist>>
  /\ UNCHANGED <<logVars, ssoVars, chanVars, httpVars>>

\* the fetch of the check, or checkResponse.json(), rejected
CheckNetworkError(t) ==
  /\ task[t].pc \in {"sso_check", "sso_check_json"}
  /\ task' = [task EXCEPT ![t] =
       Degraded([task[t] EXCEPT !.checkResponse = NetworkFailure], FetchFailed)]
  /\ UNCHANGED <<users, conversations, conversationStates, hist>>
  /\ UNCHANGED <<logVars, ssoVars, chanVars, httpVars>>

\* return { exists: userData.exists || false, docNumber, userData }
CheckJson(t) ==
  /\ task[t].pc = "sso_check_json"
  /\ task' = [task EXCEPT ![t] =
       IF task[t].checkBody.isNull
       THEN Degraded(task[t], NullBodyError)
       ELSE [Done(task[t]) EXCEPT
               !.resKind = "sso_ok",
               !.resExists = task[t].checkBody.hasExists /\ task[t].checkBody.exists,
               !.resDoc = SsoDoc(task[t])]]
  /\ UNCHANGED <<users, conversations, conversationStates, hist>>
  /\ UNCHANGED <<logVars, ssoVars, chanVars, httpVars>>

\* the steps of the try block of a running handler, the token endpoint
\* answering with one of the bodies
SsoStepOf(t, bodies) ==
  \/ SsoEnter(t)
  \/ TokenResponseOkOf(t, bodies)
  \/ TokenResponseNotOk(t)
  \/ TokenNetworkError(t)
  \/ TokenStore(t)
  \/ SsoTokenResult(t)
  \/ CheckResponseOk(t)
  \/ CheckResponseNotOk(t)
  \/ CheckNetworkError(t)
  \/ CheckJson(t)

SsoStep(t) == SsoStepOf(t, TokenPayloads)

(* ------------------------------------------------------------------ *)
(* The HTTP server: assertAuth, the SSE handshake, the POST of messages *)
(* ------------------------------------------------------------------ *)
\* s.startsWith(prefix)
StartsWith(str, prefix) ==
  Len(str) >= Len(prefix) /\ SubSeq(str, 1, Len(prefix)) = prefix

Url_health   == <<"/","h","e","a","l","t","h">>
Url_sse      == <<"/","m","c","p","/","s","s","e">>
Url_messages == <<"/","m","c","p","/","m","e","s","s","a","g","e","s">>
Str_Bearer   == <<"B","e","a","r","e","r"," ">>

\* the secrets the process may be configured with
Secrets == {<<>>, <<"s","3">>}

\* variant: the header only has to start with the expected value
AuthMatches_Prefix(auth, secret) == StartsWith(auth, Str_Bearer \o secret)

\* auth === `Bearer ${MCP_BEARER_TOKEN}`
AuthMatches(auth, secret) == auth = Str_Bearer \o secret

\* assertAuth returns (TRUE) or throws the 401 error (FALSE)
assertAuth(auth, secret) == secret = <<>> \/ AuthMatches(auth, secret)

\* searchParams.get("sessionId") when the parameter is missing (null)
NoSession == 0
\* searchParams.get("sessionId") when the parameter is there without a value
EmptySession == -1

\* values of req.headers.authorization ?? ""
AuthHeaders ==
  {<<>>, Str_Bearer \o <<"s","3">>, <<"b","e","a","r","e","r"," ","s","3">>,
   Str_Bearer \o <<"s","3","x">>, Str_Bearer \o <<"s">>, Str_Bearer,
   <<"s","3">>}

\* requests: req.method, the path of req.url, its sessionId parameter and
\* the authorization header
Requests ==
  [method : {"GET", "POST"}, path : {<<>>, Url_health, <<"/","m","c","p">>},
   sessionId : {NoSession}, auth : {<<>>}]
  \cup [method : {"GET"}, path : {Url_sse, Url_sse \o <<"x">>},
        sessionId : {NoSession}, auth : AuthHeaders]
  \cup [method : {"POST"}, path : {Url_messages},
        sessionId : {EmptySession} \cup 0..(MaxSessions + 1), auth : AuthHeaders]
  \cup [method : {"POST"}, path : {Url_sse}, sessionId : {NoSession},
        auth : {Str_Bearer \o <<"s","3">>}]
  \cup [method : {"GET"}, path : {Url_messages}, sessionId : {1},
        auth : {Str_Bearer \o <<"s","3">>}]

NoRequest == [pc |-> "none"]

\* the tools a posted message may call
PostedTools == {"ping"}

IsSseHandshake(r) == r.method = "GET" /\ StartsWith(r.path, Url_sse)
IsPostMessage(r) == r.method = "POST" /\ StartsWith(r.path, Url_messages)

\* a request arrives
HttpReceive(r) ==
  /\ request.pc # "received"
  /\ IsSseHandshake(r) => Cardinality(httpLog.opened) < MaxSessions
  /\ request' = [pc |-> "received", method |-> r.method, path |-> r.path,
                  sessionId |-> r.sessionId, auth |-> r.auth, status |-> 0,
                  session |-> NoSession]
  /\ UNCHANGED <<MCP_BEARER_TOKEN, transports, httpLog>>
  /\ UNCHANGED <<storeVars, ssoVars, chanVars>>

\* the response of the request handler, the catch block included
Responded(r, status) == [r EXCEPT !.pc = "responded", !.status = status]

\* the request handler of createServer, up to its first await
HttpHandle ==
  /\ request.pc = "received"
  /\ LET r == request IN
     IF r.path = <<>>
     THEN \* if (!req.url) 400
          /\ request' = Responded(r, 400)
          /\ UNCHANGED <<transports, httpLog, task>>
     ELSE IF r.method = "GET" /\ r.path = Url_health /\ r.sessionId = NoSession
     THEN /\ request' = Responded(r, 200)
          /\ UNCHANGED <<transports, httpLog, task>>
     ELSE IF IsSseHandshake(r)
     THEN IF ~assertAuth(r.auth, MCP_BEARER_TOKEN)
          THEN /\ request' = Responded(r, 401)
               /\ UNCHANGED <<transports, httpLog, task>>
          ELSE \* transports.set(transport.sessionId, transport)
               LET sid == Cardinality(httpLog.opened) + 1 IN
               /\ transports' = transports \cup {sid}
               /\ httpLog' = [httpLog EXCEPT !.opened = @ \cup {sid}]
               /\ request' = [Responded(r, 200) EXCEPT !.session = sid]
               /\ UNCHANGED task
     ELSE IF IsPostMessage(r)
     THEN IF ~assertAuth(r.auth, MCP_BEARER_TOKEN)
          THEN /\ request' = Responded(r, 401)
               /\ UNCHANGED <<transports, httpLog, task>>
          ELSE IF r.sessionId \in {NoSession, EmptySession}
          THEN \* if (!sessionId) 400
               /\ request' = Responded(r, 400)
               /\ UNCHANGED <<transports, httpLog, task>>
          ELSE IF r.sessionId \notin transports
          THEN /\ request' = Responded(r, 404)
               /\ UNCHANGED <<transports, httpLog, task>>
          ELSE \* await transport.handlePostMessage(req, res): the message
               \* reaches the tool it names
               /\ \E t \in Tasks, tool \in PostedTools :
                    /\ task[t].pc = "idle"
                    /\ \A u \in Tasks : task[u].pc = "idle" => t <= u
                    /\ task' = [task EXCEPT ![t] =
                         Entered(tool, IF tool = "ping" THEN NoArgs
                                       ELSE [NoArgs EXCEPT !.channel = <<"x">>,
                                                           !.externalId = "e1"],
                                 users)]
               /\ httpLog' = [httpLog EXCEPT !.delivered = @ \cup {r.sessionId}]
               /\ request' = [Responded(r, 202) EXCEPT !.session = r.sessionId]
               /\ UNCHANGED transports
     ELSE /\ request' = Responded(r, 404)
          /\ UNCHANGED <<transports, httpLog, task>>
  /\ UNCHANGED <<MCP_BEARER_TOKEN, users, conversations, conversationStates,
                 hist, logVars>>
  /\ UNCHANGED <<ssoVars, chanVars>>

\* variant: no close listener, the map keeps the session
SseClose_Kept(sid) ==
  /\ sid \in transports
  /\ sid \notin httpLog.closed
  /\ httpLog' = [httpLog EXCEPT !.closed = @ \cup {sid}]
  /\ UNCHANGED <<MCP_BEARER_TOKEN, request, transports>>
  /\ UNCHANGED <<storeVars, ssoVars, chanVars>>

\* res.on("close", () => transports.delete(transport.sessionId))
SseClose(sid) ==
  /\ sid \in transports
  /\ transports' = transports \ {sid}
  /\ httpLog' = [httpLog EXCEPT !.closed = @ \cup {sid}]
  /\ UNCHANGED <<MCP_BEARER_TOKEN, request>>
  /\ UNCHANGED <<storeVars, ssoVars, chanVars>>

(* ------------------------------------------------------------------ *)
(* Specifications                                                     *)
(* ------------------------------------------------------------------ *)
\* a User row written by another client of the database: it owns no
\* Conversation (User owns zero-or-more Conversations)
LegacyUser ==
  [channel |-> "other", externalId |-> "e1", phone |-> NoStr, docNumber |-> NoStr]

StoreInit ==
  /\ users \in {<<>>, <<LegacyUser>>}
  /\ preexisting = {i \in 1..Len(users) : TRUE}
  /\ conversations = <<>>
  /\ conversationStates = <<>>
  /\ task = [t \in Tasks |-> IdleTask]
  /\ consents = <<>>
  /\ messages = <<>>
  /\ initReturned = {}
  /\ written = {}
  /\ lastReplaced = JNull

SsoInit ==
  /\ ssoTokenCache = NoCache
  /\ now = 0
  /\ ssoCall = [t \in Tasks |-> IdleCall]
  /\ lastCall = [t \in Tasks |-> IdleCall]

ChanInit ==
  /\ chInput = <<>>
  /\ chOutput = "none"

\* no bearer secret configured, no session, no request
HttpIdle ==
  /\ MCP_BEARER_TOKEN = <<>>
  /\ transports = {}
  /\ request = NoRequest
  /\ httpLog = [opened |-> {}, closed |-> {}, delivered |-> {}]

Init == StoreInit /\ SsoInit /\ ChanInit /\ HttpIdle

\* the store round trips of a running handler
ResolverStep(t) ==
  \/ UserUpsertCreate(t)
  \/ UserUpsertUpdate(t)
  \/ ConversationCreate(t)
  \/ ConversationStateUpsert(t)
  \/ PersistenceError(t)
  \/ Return(t)

\* concurrent initConversation calls for one identity
Next ==
  \E t \in Tasks :
    \/ \E p \in PhoneInputs : initConversation(t, <<"x">>, "e1", p, NoStr)
    \/ ResolverStep(t)

Spec == Init /\ [][Next]_vars

\* tool invocations one after the other
SeqNext ==
  \/ \E c \in ChannelInputs, e \in ExternalIds, p \in PhoneInputs, d \in DocInputs :
       initConversation(1, c, e, p, d)
  \/ \E c \in ChannelInputs, e \in ExternalIds : getState(1, c, e)
  \/ ResolverStep(1)
  \/ StateFindUnique(1)

SeqSpec == Init /\ [][SeqNext]_vars

\* initConversation calls one after the other, each of which may fail at
\* any of its store calls
RepairNext ==
  \/ \E c \in {<<"x">>, Str_web}, p \in PhoneInputs :
       initConversation(1, c, "e1", p, NoStr)
  \/ ResolverStep(1)

RepairSpec == Init /\ [][RepairNext]_vars

\* sequential state tools on one conversation, all data arguments
MergeNext ==
  \/ getState(1, <<"x">>, "e1")
  \/ \E D \in DataInputs, r \in BOOLEAN : setState(1, <<"x">>, "e1", D, r)
  \/ ResolverStep(1)
  \/ StateFindUnique(1)
  \/ StateUpdate(1)

\* the database holds no row yet
EmptyStoreInit == Init /\ users = <<>>

MergeSpec == Init /\ [][MergeNext]_vars

\* concurrent state tools on one conversation
StateNext ==
  \E t \in Tasks :
    \/ getState(t, <<"x">>, "e1")
    \/ \E D \in SmallDataInputs, r \in BOOLEAN : setState(t, <<"x">>, "e1", D, r)
    \/ ResolverStep(t)
    \/ StateFindUnique(t)
    \/ StateUpdate(t)

StateSpec == Init /\ [][StateNext]_vars

\* two callers merging disjoint keys into the state of one conversation:
\* caller 1 sets a, caller 2 sets b, both with replace = false
DisjointData(t) ==
  IF t = 1 THEN JObj([k \in {"a"} |-> JNum(1)]) ELSE JObj([k \in {"b"} |-> JNum(1)])

DisjointMergeNext ==
  \E t \in {1, 2} :
    \/ setState(t, <<"x">>, "e1", DisjointData(t), FALSE)
    \/ ResolverStep(t)
    \/ StateFindUnique(t)
    \/ StateUpdate(t)

DisjointMergeSpec == Init /\ [][DisjointMergeNext]_vars

\* getSSOToken calls one after the other, against a running clock
TokenNext ==
  \/ getSSOToken(1)
  \/ TokenResponseOk(1)
  \/ TokenResponseNotOk(1)
  \/ TokenNetworkError(1)
  \/ TokenStore(1)
  \/ TokenReturn(1)
  \/ Tick

TokenSpec == EmptyStoreInit /\ [][TokenNext]_vars

\* two token responses with different tokens and lifetimes
RacePayloads ==
  {[access_token |-> "tok1", hasExpiresIn |-> TRUE, expires_in |-> 90],
   [access_token |-> "tok2", hasExpiresIn |-> TRUE, expires_in |-> 120]}

\* getSSOToken calls of several callers interleaved at their awaits
TokenRaceNext ==
  \/ \E c \in Tasks :
       \/ getSSOToken(c)
       \/ TokenResponseOkOf(c, RacePayloads)
       \/ TokenResponseNotOk(c)
       \/ TokenNetworkError(c)
       \/ TokenStore(c)
       \/ TokenReturn(c)
  \/ (now < 2 * TickMs /\ Tick)

TokenRaceSpec == EmptyStoreInit /\ [][TokenRaceNext]_vars

\* the tool wrappers of the remaining tools
saveDocNumber(t, rawChannel, externalId, docNumber) ==
  Invoke(t, "saveDocNumber",
         [NoArgs EXCEPT !.channel = rawChannel, !.externalId = externalId,
                        !.docNumber = docNumber])

validateCurrentUser(t, rawChannel, externalId) ==
  Invoke(t, "validateCurrentUser",
         [NoArgs EXCEPT !.channel = rawChannel, !.externalId = externalId])

validateUserInSSO(t, rawChannel, externalId, docNumber) ==
  Invoke(t, "validateUserInSSO",
         [NoArgs EXCEPT !.channel = rawChannel, !.externalId = externalId,
                        !.docNumber = docNumber])

recordConsent(t, rawChannel, externalId, policyVersion, accepted) ==
  Invoke(t, "recordConsent",
         [NoArgs EXCEPT !.channel = rawChannel, !.externalId = externalId,
                        !.policyVersion = policyVersion, !.accepted = accepted])

appendMessage(t, rawChannel, externalId, role, content) ==
  Invoke(t, "appendMessage",
         [NoArgs EXCEPT !.channel = rawChannel, !.externalId = externalId,
                        !.role = role, !.content = content])

getConversationSummary(t, rawChannel, externalId, lastMessages) ==
  Invoke(t, "getConversationSummary",
         [NoArgs EXCEPT !.channel = rawChannel, !.externalId = externalId,
                        !.lastMessages = lastMessages])

\* the SSO validation tools one after the other
SsoNext ==
  \/ validateUserInSSO(1, <<"x">>, "e1", "d1")
  \/ validateCurrentUser(1, <<"x">>, "e1")
  \/ saveDocNumber(1, <<"x">>, "e1", "d1")
  \/ ResolverStep(1)
  \/ UserUpdate(1)
  \/ SsoStep(1)

SsoSpec == Init /\ [][SsoNext]_vars

\* arguments naming the identity (other, e1)
BaseArgs == [NoArgs EXCEPT !.channel = <<"x">>, !.externalId = "e1"]

\* arguments each tool's schema accepts
GoodArgs(tool) ==
  CASE tool = "ping" -> {NoArgs}
    [] tool = "recordConsent" ->
         {[BaseArgs EXCEPT !.policyVersion = "v1", !.accepted = a] :
            a \in {"true", "false"}}
    [] tool \in {"saveDocNumber", "requestDocNumberConfirmation",
                 "validateUserInSSO"} ->
         {[BaseArgs EXCEPT !.docNumber = "d1"]}
    [] tool = "setState" ->
         {[BaseArgs EXCEPT !.data = JObj([k \in {"a"} |-> JNum(1)]), !.replace = r] :
            r \in BOOLEAN}
    [] tool = "appendMessage" ->
         {[BaseArgs EXCEPT !.role = "user", !.content = "hello"]}
    [] tool = "getConversationSummary" ->
         {[BaseArgs EXCEPT !.lastMessages = n] : n \in {NoNum, IntArg(1)}}
    [] OTHER -> {BaseArgs}

\* a token response without expires_in
PlainTokenPayloads ==
  {[access_token |-> "tok1", hasExpiresIn |-> FALSE, expires_in |-> 0]}

\* the table a tool appends to is not full
RoomFor(tool) ==
  /\ tool = "recordConsent" => Len(consents) < MaxRows
  /\ tool = "appendMessage" => Len(messages) < MaxRows

\* the round trips and the returns of the handlers of all tools
HandlerStep(t) ==
  \/ ResolverStep(t)
  \/ StateFindUnique(t)
  \/ StateUpdate(t)
  \/ UserUpdate(t)
  \/ StateOverwrite(t)
  \/ ConsentCreate(t)
  \/ MessageCreate(t)
  \/ SummaryQuery(t)
  \/ SsoStepOf(t, PlainTokenPayloads)

\* every tool, one invocation after the other, for one identity
ToolsNext ==
  \/ \E tool \in ToolNames : \E args \in GoodArgs(tool) :
       RoomFor(tool) /\ Invoke(1, tool, args)
  \/ HandlerStep(1)

ToolsSpec == Init /\ [][ToolsNext]_vars

\* lastMessages arguments within the schema's range
LastMessagesInputs == {NoNum, IntArg(1), IntArg(2), IntArg(3), IntArg(MaxLastMessages)}

\* appendMessage and getConversationSummary one after the other, for two
\* identities
MessageNext ==
  \/ \E c \in {<<"x">>, Str_web} :
       Len(messages) < MaxAppended /\ appendMessage(1, c, "e1", "user", "hello")
  \/ \E c \in {<<"x">>, Str_web}, n \in LastMessagesInputs :
       getConversationSummary(1, c, "e1", n)
  \/ ResolverStep(1)
  \/ MessageCreate(1)
  \/ SummaryQuery(1)

MessageSpec == Init /\ [][MessageNext]_vars

\* recordConsent calls one after the other, against a running clock
ConsentNext ==
  \/ \E a \in {"true", "false"} :
       Len(consents) < MaxConsents /\ recordConsent(1, <<"x">>, "e1", "v1", a)
  \/ ResolverStep(1)
  \/ ConsentCreate(1)
  \/ Tick

ConsentSpec == Init /\ [][ConsentNext]_vars

\* one externalId reached through raw channels that normalise to other (x, y)
\* and to web (web, Web): writes through x and web, reads through y and Web
IdentityNext ==
  \/ setState(1, <<"x">>, "e1", JObj([k \in {"a"} |-> JNum(1)]), FALSE)
  \/ \E r \in BOOLEAN :
       setState(1, Str_web, "e1", JObj([k \in {"b"} |-> JNum(1)]), r)
  \/ \E c \in {<<"y">>, <<"W","e","b">>} : getState(1, c, "e1")
  \/ \E c \in {<<"x">>, Str_web} :
       Len(messages) < MaxRows /\ appendMessage(1, c, "e1", "user", "hello")
  \/ \E c \in {<<"x">>, Str_web} :
       Len(consents) < MaxRows /\ recordConsent(1, c, "e1", "v1", "true")
  \/ \E c \in {<<"y">>, <<"W","e","b">>} :
       getConversationSummary(1, c, "e1", NoNum)
  \/ ResolverStep(1)
  \/ StateFindUnique(1)
  \/ StateUpdate(1)
  \/ ConsentCreate(1)
  \/ MessageCreate(1)
  \/ SummaryQuery(1)

IdentitySpec == Init /\ [][IdentityNext]_vars

\* recordConsent and getConversationSummary one after the other, for two
\* identities and two policy versions, with one step of the clock
LatestConsentNext ==
  \/ \E v \in {"v1", "v2"}, a \in {"true", "false"} :
       Len(consents) < MaxConsents /\ recordConsent(1, <<"x">>, "e1", v, a)
  \/ Len(consents) < MaxConsents /\ recordConsent(1, Str_web, "e1", "v1", "true")
  \/ \E c \in {<<"x">>, Str_web} : getConversationSummary(1, c, "e1", NoNum)
  \/ ResolverStep(1)
  \/ ConsentCreate(1)
  \/ SummaryQuery(1)
  \/ (now < TickMs /\ Tick)

LatestConsentSpec == Init /\ [][LatestConsentNext]_vars

\* initConversation, saveDocNumber and the tools that read or leave the
\* User row, one invocation after the other, for one identity
UserNext ==
  \/ \E p \in {NoStr, "", "p1", "p2"}, d \in {NoStr, "", "d1"} :
       initConversation(1, <<"x">>, "e1", p, d)
  \/ saveDocNumber(1, <<"x">>, "e1", "d2")
  \/ \E tool \in {"requestDocNumberConfirmation", "validateUserInSSO"} :
       Invoke(1, tool, [BaseArgs EXCEPT !.docNumber = "d1"])
  \/ \E tool \in {"getState", "validateCurrentUser"} : Invoke(1, tool, BaseArgs)
  \/ ResolverStep(1)
  \/ StateFindUnique(1)
  \/ UserUpdate(1)
  \/ StateOverwrite(1)
  \/ SsoStepOf(1, PlainTokenPayloads)

UserSpec == Init /\ [][UserNext]_vars

\* lastMessages arguments outside the schema's range, or not integers
BadLastMessages ==
  {IntArg(0), IntArg(-1), IntArg(MaxLastMessages + 1), FractionArg(2)}

\* arguments a tool's schema rejects: a required field missing or empty
BadArgs(tool) ==
  {[a EXCEPT ![f] = v] :
     a \in GoodArgs(tool), f \in RequiredStrings(tool), v \in {NoStr, ""}}
  \cup (IF tool = "recordConsent"
        THEN {[a EXCEPT !.accepted = NoStr] : a \in GoodArgs(tool)} ELSE {})
  \cup (IF tool = "setState"
        THEN {[a EXCEPT !.data = NoData] : a \in GoodArgs(tool)} ELSE {})
  \cup (IF tool = "getConversationSummary"
        THEN {[a EXCEPT !.lastMessages = n] :
                a \in GoodArgs(tool), n \in BadLastMessages}
        ELSE {})

\* the accepted arguments with the channel left out
ChannelOmitted(tool) == {[a EXCEPT !.channel = NoChannel] : a \in GoodArgs(tool)}

\* every tool with accepted and with rejected arguments, one invocation
\* after the other; the User of (whatsapp, e1) is created by the upsert
\* together with its Conversation, so the fallback create has no case here
ValidationNext ==
  \/ \E tool \in ToolNames : \E args \in ChannelOmitted(tool) \cup BadArgs(tool) :
       RoomFor(tool) /\ Invoke(1, tool, args)
  \/ UserUpsertCreate(1)
  \/ UserUpsertUpdate(1)
  \/ ConversationStateUpsert(1)
  \/ PersistenceError(1)
  \/ Return(1)
  \/ StateFindUnique(1)
  \/ StateUpdate(1)
  \/ UserUpdate(1)
  \/ StateOverwrite(1)
  \/ ConsentCreate(1)
  \/ MessageCreate(1)
  \/ SummaryQuery(1)
  \/ SsoStepOf(1, PlainTokenPayloads)

ValidationSpec == Init /\ [][ValidationNext]_vars

\* the HTTP server with or without a configured secret
HttpInit ==
  /\ StoreInit /\ SsoInit /\ ChanInit
  /\ MCP_BEARER_TOKEN \in Secrets
  /\ transports = {}
  /\ request = NoRequest
  /\ httpLog = [opened |-> {}, closed |-> {}, delivered |-> {}]

HttpNext ==
  \/ \E r \in Requests : HttpReceive(r)
  \/ HttpHandle
  \/ \E sid \in 1..MaxSessions : SseClose(sid)
  \/ \E t \in Tasks : Return(t)

HttpSpec == HttpInit /\ [][HttpNext]_vars

\* parseChannel applied to channel strings
ChannelInit ==
  /\ StoreInit /\ users = <<>>
  /\ SsoInit
  /\ HttpIdle
  /\ chInput \in ChannelStrings
  /\ chOutput = "none"

ChannelNext == ParseChannelCall

ChannelSpec == ChannelInit /\ [][ChannelNext]_vars

(* ------------------------------------------------------------------ *)
(* Properties                                                         *)
(* ------------------------------------------------------------------ *)
ConversationsOf(userId) ==
  {i \in 1..Len(conversations) : conversations[i].userId = userId}

\* the stored state of a conversation
StoredState(conversationId) ==
  conversationState_findUnique(conversationStates, conversationId)

\* C1: in a sequential run all initConversation calls for one (channel,
\* externalId) return the same userId and conversationId, and the pair has
\* exactly one User row and one Conversation row
C1_InitConversationIdempotent ==
  /\ \A r1, r2 \in initReturned :
       (r1.channel = r2.channel /\ r1.externalId = r2.externalId)
         => (r1.userId = r2.userId /\ r1.conversationId = r2.conversationId)
  /\ \A r \in initReturned :
       /\ Cardinality(UserIdsOf(users, r.channel, r.externalId)) = 1
       /\ Cardinality(ConversationsOf(r.userId)) = 1

\* a first call created the pair's user and a later call returned too
C1_Witness ==
  \E r1, r2 \in initReturned :
    /\ r1.channel = r2.channel /\ r1.externalId = r2.externalId
    /\ ~r1.existed /\ r2.existed
    /\ task[1].pc = "done" /\ task[1].tool = "initConversation"
    /\ task[1].found # 0 /\ task[1].channel = r1.channel

\* C2: under concurrency there is at most one User row per (channel,
\* externalId), and a resolver call that got past the upsert holds that row
C2_UniqueUserPerPair ==
  /\ \A i, j \in 1..Len(users) :
       (users[i].channel = users[j].channel
          /\ users[i].externalId = users[j].externalId) => i = j
  /\ \A t \in Tasks :
       task[t].user # 0 =>
         UserIdsOf(users, task[t].channel, task[t].externalId) = {task[t].user}

\* two first contacts raced: one created the row, the other was rejected
C2_Witness ==
  \E t1, t2 \in Tasks :
    /\ t1 # t2
    /\ task[t1].found = 0 /\ task[t1].user # 0
    /\ task[t2].found = 0 /\ task[t2].pc = "failed"
    /\ task[t2].error = "UniqueConstraint"
    /\ task[t1].channel = task[t2].channel

\* C3: every User created through the resolver has exactly one
\* Conversation, and the fallback create is never reached for such a user
C3_OneConversationPerUser ==
  /\ \A u \in 1..Len(users) :
       u \notin preexisting => Cardinality(ConversationsOf(u)) = 1
  /\ \A t \in Tasks :
       task[t].pc = "conversation_create" => task[t].user \in preexisting

\* two concurrent calls resolved the same resolver-created user
C3_Witness ==
  \E t1, t2 \in Tasks :
    /\ t1 # t2
    /\ task[t1].user # 0 /\ task[t1].user = task[t2].user
    /\ task[t1].user \notin preexisting
    /\ task[t1].conversation = task[t2].conversation
    /\ task[t1].pc = "done" /\ task[t2].pc = "done"

\* C4: the resolver's state upsert leaves exactly one ConversationState row
\* for the conversation, creates it with data {} when absent and changes no
\* existing row; only the update of setState changes a row
C4_StatePresentNotReset ==
  [][ /\ \A t \in Tasks :
           (task[t].pc = "conversationState_upsert"
              /\ task'[t].pc \notin {"conversationState_upsert", "failed"})
           => /\ Cardinality(StateIdsOf(conversationStates', task[t].conversation)) = 1
              /\ StateIdsOf(conversationStates, task[t].conversation) = {}
                   => conversationState_findUnique(conversationStates',
                                                   task[t].conversation) = EmptyObj
      /\ (\A t \in Tasks : ~(task[t].pc = "state_update" /\ task'[t].pc = "done"))
           => \A i \in 1..Len(conversationStates) :
                /\ i <= Len(conversationStates')
                /\ conversationStates'[i] = conversationStates[i]
    ]_vars

\* a getState that resolved after a setState still reads the written state
C4_Witness ==
  \E t \in Tasks :
    /\ task[t].pc = "done" /\ task[t].tool = "getState"
    /\ task[t].resData = JObj([k \in {"a"} |-> JNum(1)])
    /\ task[t].found # 0

\* C5: setState with replace=false on an object-shaped prior state P and
\* data D stores the keys of P and D, D's value for each key of D and P's
\* value for each other key
C5_SetStateMerge ==
  (task[1].pc = "done" /\ task[1].tool = "setState" /\ ~task[1].replace
     /\ task[1].current.kind = "obj")
  => LET P == task[1].current.val
         D == task[1].data.val
         S == StoredState(task[1].conversation)
     IN /\ S.kind = "obj"
        /\ DOMAIN S.val = (DOMAIN P) \cup (DOMAIN D)
        /\ \A k \in DOMAIN D : S.val[k] = D[k]
        /\ \A k \in (DOMAIN P) \ (DOMAIN D) : S.val[k] = P[k]

\* prior {a:1, b:{x:1}}, data {b:1, c:{y:1}}, stored {a:1, b:1, c:{y:1}}
C5_Witness ==
  /\ task[1].pc = "done" /\ task[1].tool = "setState" /\ ~task[1].replace
  /\ task[1].current =
       JObj([k \in {"a", "b"} |-> IF k = "a" THEN JNum(1) ELSE JObj([j \in {"x"} |-> 1])])
  /\ task[1].data =
       JObj([k \in {"b", "c"} |-> IF k = "b" THEN JNum(1) ELSE JObj([j \in {"y"} |-> 1])])
  /\ StoredState(task[1].conversation) =
       JObj([k \in {"a", "b", "c"} |->
               IF k = "c" THEN JObj([j \in {"y"} |-> 1]) ELSE JNum(1)])

\* C6: setState with replace=true stores exactly the data, and a getState
\* that follows it returns that data
C6_SetStateReplace ==
  /\ (task[1].pc = "done" /\ task[1].tool = "setState" /\ task[1].replace)
       => StoredState(task[1].conversation) = task[1].data
  /\ (task[1].pc = "done" /\ task[1].tool = "getState" /\ lastReplaced # JNull)
       => task[1].resData = lastReplaced

\* a stored state was replaced with {b:1} and getState returns {b:1}
C6_Witness ==
  /\ task[1].pc = "done" /\ task[1].tool = "getState"
  /\ lastReplaced = JObj([k \in {"b"} |-> JNum(1)])
  /\ task[1].resData = JObj([k \in {"b"} |-> JNum(1)])

\* C7: a setState on a conversation whose state no tool has written yet
\* stores exactly its data, whatever the replace flag
C7_SetStateFresh ==
  [][ (task[1].pc = "state_update" /\ task'[1].pc = "done"
         /\ task[1].conversation \notin written)
      => conversationState_findUnique(conversationStates', task[1].conversation)
           = task[1].data
    ]_vars

\* setState with replace=false was the first tool invoked for the pair
C7_Witness ==
  /\ task[1].pc = "done" /\ task[1].tool = "setState" /\ ~task[1].replace
  /\ task[1].found = 0
  /\ task[1].data = JObj([k \in {"a"} |-> JNum(1)])
  /\ StoredState(task[1].conversation) = task[1].data

\* C8: with replace=false a key holding an object in the prior state and in
\* the data ends up holding exactly the data's object, without the sub-keys
\* that only the prior object had
C8_MergeOneLevel ==
  (task[1].pc = "done" /\ task[1].tool = "setState" /\ ~task[1].replace
     /\ task[1].current.kind = "obj")
  => LET P == task[1].current.val
         D == task[1].data.val
         S == StoredState(task[1].conversation)
     IN \A k \in (DOMAIN P) \cap (DOMAIN D) :
          (P[k].kind = "obj" /\ D[k].kind = "obj")
            => /\ k \in DOMAIN S.val
               /\ S.val[k].kind = "obj"
               /\ S.val[k] = D[k]
               /\ \A j \in (DOMAIN P[k].val) \ (DOMAIN D[k].val) :
                    j \notin DOMAIN S.val[k].val

\* prior {a:{x:1}}, data {a:{y:1}}, stored {a:{y:1}}
C8_Witness ==
  /\ task[1].pc = "done" /\ task[1].tool = "setState" /\ ~task[1].replace
  /\ task[1].current = JObj([k \in {"a"} |-> JObj([j \in {"x"} |-> 1])])
  /\ task[1].data = JObj([k \in {"a"} |-> JObj([j \in {"y"} |-> 1])])
  /\ StoredState(task[1].conversation) = JObj([k \in {"a"} |-> JObj([j \in {"y"} |-> 1])])

\* the input spells the word w, in any mix of upper and lower case
SpellsIgnoringCase(input, w) ==
  /\ Len(input) = Len(w)
  /\ \A i \in 1..Len(w) : input[i] \in {w[i], UpperChar(w[i])}

\* C9: parseChannel is total and case-insensitive: whatsapp exactly for the
\* spellings of "whatsapp", web exactly for the spellings of "web", other
\* for every remaining string
C9_ParseChannelTotal ==
  chOutput # "none" =>
    /\ chOutput \in {"whatsapp", "web", "other"}
    /\ chOutput = "whatsapp" <=> SpellsIgnoringCase(chInput, Str_whatsapp)
    /\ chOutput = "web" <=> SpellsIgnoringCase(chInput, Str_web)
    /\ chOutput = "other" <=> (~SpellsIgnoringCase(chInput, Str_whatsapp)
                                 /\ ~SpellsIgnoringCase(chInput, Str_web))

\* "WhatsApp" was normalised to whatsapp
C9_Witness ==
  /\ chInput = <<"W","h","a","t","s","A","p","p">>
  /\ chOutput = "whatsapp"

\* C10: a getSSOToken call issues a token request iff the slot is empty or
\* now >= expiresAt; a call within the window issues none, returns the
\* cached token and leaves the slot alone; a call issues at most one request
\* and a successful response replaces the slot by its token and expiry
C10_TokenCacheHitMiss ==
  [][ /\ (ssoCall[1].pc = "idle" /\ ssoCall'[1].pc # "idle")
           => /\ (ssoCall'[1].reqs = 1 /\ ssoCall'[1].pc = "fetch")
                   <=> (~ssoTokenCache.has \/ now >= ssoTokenCache.expiresAt)
              /\ (ssoTokenCache.has /\ now < ssoTokenCache.expiresAt)
                   => /\ ssoCall'[1].reqs = 0
                      /\ ssoCall'[1].pc = "returned"
                      /\ ssoCall'[1].ret = ssoTokenCache.token
                      /\ ssoTokenCache' = ssoTokenCache
      /\ ssoCall'[1].pc # "idle" => ssoCall'[1].reqs <= IF ssoCall[1].pc = "idle" THEN 1
                                                        ELSE ssoCall[1].reqs
      /\ (ssoCall[1].pc = "json" /\ ssoCall'[1].pc = "returned")
           => /\ ssoTokenCache'.has
              /\ ssoTokenCache'.token = ssoCall[1].payload.access_token
              /\ ssoTokenCache'.expiresAt = ExpiresAt(now, ssoCall[1].payload)
              /\ ssoCall'[1].ret = ssoTokenCache'.token
      /\ ~(ssoCall[1].pc = "json" /\ ssoCall'[1].pc = "returned")
           => ssoTokenCache' = ssoTokenCache
    ]_vars

\* the first call after the expiry fetched a token and stored it
C10_Witness ==
  /\ ssoCall[1].pc = "returned" /\ ssoCall[1].saw = "expired"
  /\ ssoCall[1].reqs = 1
  /\ ssoTokenCache.has /\ ssoTokenCache.token = ssoCall[1].ret
  /\ now < ssoTokenCache.expiresAt

\* C11: when the token endpoint answers with a non-success status the call
\* throws an error carrying the status text after its single request, the
\* slot stays what the call found, and the call that follows issues a new
\* token request
C11_TokenFailureNotCached ==
  [][ /\ (~ssoCall[1].response.arrived /\ ssoCall'[1].response.arrived
             /\ ~ssoCall'[1].response.ok)
           => /\ ssoCall'[1].pc = "threw"
              /\ ssoCall'[1].error =
                   <<"Token request failed: ", ssoCall'[1].response.statusText>>
              /\ ssoCall'[1].reqs = 1
              /\ ssoTokenCache' = ssoCall'[1].cacheAtEntry
      /\ (ssoCall[1].pc = "threw" /\ ssoCall'[1].pc = "idle")
           => /\ ssoTokenCache' = ssoCall[1].cacheAtEntry
              /\ ssoCall[1].reqs = 1
      /\ (ssoCall[1].pc = "idle" /\ ssoCall'[1].pc # "idle"
             /\ lastCall[1].pc = "threw" /\ lastCall[1].response.arrived)
           => /\ ssoCall'[1].pc = "fetch"
              /\ ssoCall'[1].reqs = 1
    ]_vars

\* a refresh of an expired slot was answered 503, the stale slot was kept
\* and the following call is fetching again
C11_Witness ==
  /\ lastCall[1].pc = "threw" /\ lastCall[1].saw = "expired"
  /\ lastCall[1].error = TokenRequestFailed("Service Unavailable")
  /\ ssoTokenCache.has /\ ssoTokenCache = lastCall[1].cacheAtEntry
  /\ ssoCall[1].pc = "fetch" /\ ssoCall[1].reqs = 1

\* C12: a successful token response processed at clock value t makes the slot
\* {access_token, t + (expires_in - 60) seconds}, with expires_in taken as
\* 300 when the field is absent, and the call returns the stored token
C12_ExpiryComputation ==
  [][ (ssoCall[1].pc = "json" /\ ssoCall'[1].pc = "returned")
      => /\ ssoTokenCache'.has
         /\ ssoTokenCache'.token = ssoCall[1].payload.access_token
         /\ ssoTokenCache'.expiresAt =
              now + ((IF ssoCall[1].payload.hasExpiresIn
                      THEN ssoCall[1].payload.expires_in ELSE 300) - 60) * 1000
         /\ ssoCall'[1].ret = ssoTokenCache'.token
    ]_vars

\* a message has a non-empty part
NonEmptyMessage(m) == \E i \in 1..Len(m) : m[i] # ""

\* C13: in validateUserInSSO, and in validateCurrentUser once a docNumber is
\* stored, a failed token request or existence check (network error or
\* non-success status) makes the handler return {exists: false, error: a
\* non-empty message, docNumber}; no step of the try block throws
C13_SsoFailuresDegraded ==
  [][ \A t \in Tasks :
        (task[t].pc \in {"sso_enter", "sso_token", "sso_check", "sso_check_json"}
           /\ task'[t] # task[t])
        => /\ task'[t].pc # "failed"
           /\ ((task[t].pc = "sso_token" /\ ssoCall[t].pc = "threw")
                 \/ (task'[t].checkResponse # task[t].checkResponse
                       /\ ~task'[t].checkResponse.ok))
              => /\ task'[t].pc = "done"
                 /\ ~task'[t].resExists
                 /\ NonEmptyMessage(task'[t].resError)
                 /\ task'[t].resDoc =
                      IF task[t].tool = "validateUserInSSO"
                      THEN task[t].args.docNumber
                      ELSE users[task[t].user].docNumber
    ]_vars

\* validateCurrentUser read the stored document, got a token from the cache
\* and its existence check was answered with an empty status text
C13_Witness ==
  /\ task[1].pc = "done" /\ task[1].tool = "validateCurrentUser"
  /\ task[1].checkResponse = NotOkResponse("")
  /\ task[1].resError = <<"User check failed: ", "">>
  /\ ssoTokenCache.has /\ task[1].accessToken = ssoTokenCache.token
  /\ ~task[1].resExists /\ task[1].resDoc = "d1"

\* C14: when a tool other than ping has returned, the User, Conversation and
\* ConversationState rows of its (channel, externalId) exist
C14_LazyCreationByEveryTool ==
  \A t \in Tasks :
    (task[t].pc = "done" /\ task[t].tool # "ping")
    => \E u \in UserIdsOf(users, parseChannel(ChannelOrDefault(task[t].args.channel)),
                           task[t].args.externalId) :
         \E c \in ConversationsOf(u) : StateIdsOf(conversationStates, c) # {}

\* the ids of the Message rows of a conversation
MessagesOf(conversationId) ==
  {i \in 1..Len(messages) : messages[i].conversationId = conversationId}

\* C15: with k messages appended to the conversation and lastMessages = N,
\* getConversationSummary returns the min(N, k) most recently appended
\* messages of that conversation, in the order they were appended
C15_SummaryMessageWindow ==
  (task[1].pc = "done" /\ task[1].tool = "getConversationSummary")
  => LET own == MessagesOf(task[1].conversation)
         k == Cardinality(own)
         N == IF task[1].args.lastMessages.given
              THEN task[1].args.lastMessages.val ELSE 10
         res == task[1].resMessages
     IN /\ Len(res) = IF N < k THEN N ELSE k
        /\ \A i \in 1..Len(res) : res[i] \in own
        /\ \A i, j \in 1..Len(res) : i < j => res[i] < res[j]
        /\ \A m \in own :
             (\A i \in 1..Len(res) : res[i] # m)
               => \A i \in 1..Len(res) : m < res[i]

\* five messages m1..m5 in the conversation, lastMessages = 2, result [m4, m5]
C15_Witness ==
  /\ task[1].pc = "done" /\ task[1].tool = "getConversationSummary"
  /\ task[1].args.lastMessages = IntArg(2)
  /\ MessagesOf(task[1].conversation) = 1..5
  /\ task[1].resMessages = <<4, 5>>

\* C16: every Consent row has acceptedAt non-null iff accepted is true; a
\* recordConsent with accepted=false stores null and one with accepted=true
\* stores the clock value of the call
C16_ConsentTimestamp ==
  [][ /\ \A i \in 1..Len(consents') :
           consents'[i].acceptedAt.isNull <=> ~consents'[i].accepted
      /\ (task[1].pc = "consent_create" /\ task'[1].pc = "done")
           => /\ Len(consents') = Len(consents) + 1
              /\ LET row == consents'[Len(consents')] IN
                 /\ row.accepted <=> (task[1].args.accepted = "true")
                 /\ task[1].args.accepted = "false" => row.acceptedAt = NullTime
                 /\ task[1].args.accepted = "true" =>
                      (~row.acceptedAt.isNull /\ row.acceptedAt.at = now)
    ]_vars

\* an acceptance recorded after the clock moved, then a refusal
C16_Witness ==
  /\ Len(consents) = 2
  /\ consents[1].accepted /\ consents[1].acceptedAt = TimeAt(TickMs)
  /\ ~consents[2].accepted /\ consents[2].acceptedAt = NullTime
  /\ task[1].pc = "done" /\ task[1].created = 2

\* C17: with a non-empty secret a GET /mcp/sse or POST /mcp/messages request
\* whose Authorization header is not exactly "Bearer <secret>" is answered
\* 401, registers no session, reaches no transport and starts no tool; with
\* an empty secret no request is answered 401
C17_TransportAuthentication ==
  [][ (request.pc = "received" /\ request'.pc = "responded")
      => LET r == request'
             guarded ==
               \/ (r.method = "GET" /\ Len(r.path) >= 8
                     /\ SubSeq(r.path, 1, 8) = <<"/","m","c","p","/","s","s","e">>)
               \/ (r.method = "POST" /\ Len(r.path) >= 13
                     /\ SubSeq(r.path, 1, 13) = <<"/","m","c","p","/","m","e","s","s","a","g","e","s">>)
         IN /\ (MCP_BEARER_TOKEN # <<>> /\ guarded
                  /\ r.auth # <<"B","e","a","r","e","r"," ">> \o MCP_BEARER_TOKEN)
               => /\ r.status = 401
                  /\ transports' = transports
                  /\ httpLog' = httpLog
                  /\ task' = task
                  /\ <<users, conversations, conversationStates>>' =
                       <<users, conversations, conversationStates>>
            /\ MCP_BEARER_TOKEN = <<>> => r.status # 401
            /\ r.status = 401 => (MCP_BEARER_TOKEN # <<>> /\ guarded)
    ]_vars

\* with the secret s3 a POST carrying "Bearer s3x" for an open session was
\* answered 401
C17_Witness ==
  /\ MCP_BEARER_TOKEN = <<"s","3">>
  /\ request.pc = "responded" /\ request.method = "POST"
  /\ request.path = Url_messages
  /\ request.auth = Str_Bearer \o <<"s","3","x">>
  /\ request.sessionId \in transports
  /\ request.status = 401

\* C18: an invocation with a missing or empty externalId, a missing required
\* field, or a lastMessages that is no integer or outside [1,50] is rejected
\* with a tool-level error and changes neither the store nor the token cache
\* and issues no request; an omitted channel is taken as whatsapp and an
\* omitted lastMessages as 10
C18_ValidationBeforeEffects ==
  [][ (task[1].pc = "idle" /\ task'[1].pc # "idle")
      => LET tool == task'[1].tool
             a == task'[1].args
             invalid ==
               \/ (tool # "ping" /\ a.externalId \in {NoStr, ""})
               \/ (tool = "recordConsent"
                     /\ (a.policyVersion = NoStr \/ a.accepted = NoStr))
               \/ (tool \in {"saveDocNumber", "requestDocNumberConfirmation",
                              "validateUserInSSO"} /\ a.docNumber = NoStr)
               \/ (tool = "setState" /\ a.data = NoData)
               \/ (tool = "appendMessage"
                     /\ (a.role = NoStr \/ a.content = NoStr))
               \/ (tool = "getConversationSummary" /\ a.lastMessages.given
                     /\ (~a.lastMessages.isInt \/ a.lastMessages.val < 1
                           \/ a.lastMessages.val > 50))
         IN /\ invalid
               => /\ task'[1].pc = "rejected"
                  /\ task'[1].error = "InvalidArguments"
                  /\ task'[1].found = 0
                  /\ <<users, conversations, conversationStates, consents,
                        messages>>' =
                       <<users, conversations, conversationStates, consents,
                         messages>>
                  /\ ssoTokenCache' = ssoTokenCache
                  /\ ssoCall' = ssoCall
            /\ (task'[1].pc # "rejected" /\ tool # "ping" /\ a.channel = NoChannel)
               => task'[1].channel = "whatsapp"
            /\ (task'[1].pc # "rejected" /\ tool = "getConversationSummary"
                  /\ ~a.lastMessages.given)
               => task'[1].lastMessages = 10
    ]_vars

\* after rows were written for (whatsapp, e1) through an omitted channel, a
\* getConversationSummary with lastMessages = 51 was rejected
C18_Witness ==
  /\ task[1].pc = "rejected" /\ task[1].tool = "getConversationSummary"
  /\ task[1].args.lastMessages = IntArg(51)
  /\ Len(messages) > 0
  /\ UserIdsOf(users, "whatsapp", "e1") # {}

\* C19: the resolver's update of an existing User overwrites phone exactly
\* when a phone is passed and docNumber exactly when a docNumber is passed,
\* and otherwise keeps the stored value; a stored docNumber changes only by
\* an initConversation that passes one or by saveDocNumber, and
\* validateCurrentUser works on the stored docNumber
C19_PartialUserUpdate ==
  /\ [][ LET tk == task[1] IN
         /\ (tk.pc = "user_upsert_write" /\ tk.found # 0
               /\ task'[1].pc \notin {tk.pc, "failed"})
            => LET passes == tk.tool = "initConversation" IN
               /\ users'[tk.found].phone =
                    IF passes /\ tk.args.phone # NoStr THEN tk.args.phone
                    ELSE users[tk.found].phone
               /\ users'[tk.found].docNumber =
                    IF passes /\ tk.args.docNumber # NoStr THEN tk.args.docNumber
                    ELSE users[tk.found].docNumber
               /\ tk.tool = "validateCurrentUser"
                    => task'[1].userDoc = users[tk.found].docNumber
         /\ \A i \in 1..Len(users) :
              /\ users'[i].docNumber # users[i].docNumber
                 => \/ (tk.tool = "initConversation" /\ tk.args.docNumber # NoStr
                         /\ users'[i].docNumber = tk.args.docNumber)
                    \/ (tk.tool = "saveDocNumber" /\ tk.pc = "user_update"
                         /\ tk.user = i /\ users'[i].docNumber = tk.args.docNumber)
              /\ users'[i].phone # users[i].phone
                 => (tk.tool = "initConversation" /\ tk.args.phone # NoStr
                      /\ users'[i].phone = tk.args.phone)
     ]_vars
  /\ [](task[1].tool = "validateCurrentUser" /\ task[1].user # 0
        => /\ task[1].userDoc = users[task[1].user].docNumber
           /\ task[1].pc \in {"sso_enter", "sso_token", "sso_check", "sso_check_json"}
                => SsoDoc(task[1]) = users[task[1].user].docNumber)

\* the docNumber d2 stored by saveDocNumber is still there after an
\* initConversation that passed a phone and no docNumber
C19_Witness ==
  /\ task[1].tool = "initConversation" /\ task[1].pc = "done"
  /\ task[1].args.phone = "p2" /\ task[1].args.docNumber = NoStr
  /\ task[1].found # 0
  /\ users[task[1].found].phone = "p2"
  /\ users[task[1].found].docNumber = "d2"

\* C20: a Consent or Message row, once created, is never changed or removed;
\* the step that completes recordConsent adds exactly one Consent row, the
\* step that completes appendMessage exactly one Message row, each for the
\* conversation the call resolved, and no other step of any tool adds,
\* changes or removes a row
C20_LogsAppendOnly ==
  [][ LET tk == task[1]
          completes(tool) ==
            tk.tool = tool /\ tk.pc \notin {"done", "failed", "rejected", "idle"}
            /\ task'[1].pc = "done"
          resolved ==
            /\ tk.conversation \in 1..Len(conversations)
            /\ conversations[tk.conversation].userId =
                 user_findUnique(users, tk.channel, tk.externalId)
      IN
      /\ Len(consents') >= Len(consents)
      /\ \A i \in 1..Len(consents) : consents'[i] = consents[i]
      /\ Len(messages') >= Len(messages)
      /\ \A i \in 1..Len(messages) : messages'[i] = messages[i]
      /\ completes("recordConsent")
         => /\ Len(consents') = Len(consents) + 1
            /\ resolved
            /\ consents'[Len(consents')].conversationId = tk.conversation
            /\ consents'[Len(consents')].policyVersion = tk.args.policyVersion
            /\ consents'[Len(consents')].accepted = (tk.args.accepted = "true")
      /\ ~completes("recordConsent") => consents' = consents
      /\ completes("appendMessage")
         => /\ Len(messages') = Len(messages) + 1
            /\ resolved
            /\ messages'[Len(messages')].conversationId = tk.conversation
            /\ messages'[Len(messages')].role = tk.args.role
            /\ messages'[Len(messages')].content = tk.args.content
      /\ ~completes("appendMessage") => messages' = messages
    ]_vars

\* with two Consent rows and two Message rows in the store, a replacing
\* setState has completed
C20_Witness ==
  /\ Len(consents) = 2 /\ Len(messages) = 2
  /\ consents[1].accepted # consents[2].accepted
  /\ task[1].tool = "setState" /\ task[1].args.replace /\ task[1].pc = "done"

\* the ids of the Consent rows of a conversation
ConsentsOf(conversationId) ==
  {i \in 1..Len(consents) : consents[i].conversationId = conversationId}

\* C21: a completed getConversationSummary reports null when the resolved
\* conversation has no Consent row, and otherwise the policyVersion, accepted
\* and acceptedAt of the row of that conversation that was created last
C21_LatestConsentInSummary ==
  (task[1].tool = "getConversationSummary" /\ task[1].pc = "done")
  => LET own == ConsentsOf(task[1].conversation) IN
     /\ conversations[task[1].conversation].userId =
          user_findUnique(users, task[1].channel, task[1].externalId)
     /\ own = {} => task[1].resConsent = NoConsent
     /\ own # {}
        => LET last == CHOOSE i \in own : \A j \in own : j <= i IN
           /\ ~task[1].resConsent.isNull
           /\ task[1].resConsent.policyVersion = consents[last].policyVersion
           /\ task[1].resConsent.accepted = consents[last].accepted
           /\ task[1].resConsent.acceptedAt = consents[last].acceptedAt

\* an acceptance of v1 at a later clock value, then a refusal of v2 for the
\* same conversation and a consent of another conversation: the summary
\* reports the refusal
C21_Witness ==
  /\ task[1].tool = "getConversationSummary" /\ task[1].pc = "done"
  /\ Len(consents) = 3
  /\ consents[1].conversationId = task[1].conversation
  /\ consents[1].accepted /\ consents[1].acceptedAt = TimeAt(TickMs)
  /\ consents[2].conversationId = task[1].conversation
  /\ ~consents[2].accepted /\ consents[2].policyVersion = "v2"
  /\ consents[3].conversationId # task[1].conversation
  /\ consents[3].accepted
  /\ task[1].resConsent =
       [isNull |-> FALSE, policyVersion |-> "v2", accepted |-> FALSE,
        acceptedAt |-> NullTime]

\* C22: a getSSOToken call that finds the slot empty or expired issues its
\* own request whatever the other calls are doing; the slot changes only
\* when a call processes its successful response, and then to the token and
\* the expiresAt of that one response; a call that fails leaves the slot as
\* it is
C22_UnsynchronisedRefresh ==
  [][ /\ \A c \in Tasks :
           /\ (ssoCall[c].pc = "idle" /\ ssoCall'[c].pc # "idle"
                 /\ (~ssoTokenCache.has \/ now >= ssoTokenCache.expiresAt))
              => (ssoCall'[c].pc = "fetch" /\ ssoCall'[c].reqs = 1)
           /\ (ssoCall[c].pc = "json" /\ ssoCall'[c].pc = "returned")
              => /\ ssoTokenCache'.has
                 /\ ssoTokenCache'.token = ssoCall[c].payload.access_token
                 /\ ssoTokenCache'.expiresAt = ExpiresAt(now, ssoCall[c].payload)
                 /\ ssoCall'[c].ret = ssoCall[c].payload.access_token
           /\ (ssoCall[c].pc # "threw" /\ ssoCall'[c].pc = "threw")
              => ssoTokenCache' = ssoTokenCache
      /\ ssoTokenCache' # ssoTokenCache
         => \E c \in Tasks : ssoCall[c].pc = "json" /\ ssoCall'[c].pc = "returned"
    ]_vars

\* two calls started on the empty slot and each made its request: the
\* first stored tok1, then the second stored tok2 with its own expiresAt
C22_Witness ==
  /\ lastCall[1].pc = "returned" /\ lastCall[1].cacheAtEntry = NoCache
  /\ lastCall[1].reqs = 1 /\ lastCall[1].payload.access_token = "tok1"
  /\ ssoCall[2].pc = "returned" /\ ssoCall[2].cacheAtEntry = NoCache
  /\ ssoCall[2].reqs = 1 /\ ssoCall[2].payload.access_token = "tok2"
  /\ now = TickMs
  /\ ssoTokenCache = [has |-> TRUE, token |-> "tok2",
                      expiresAt |-> TickMs + (120 - 60) * 1000]

\* C23: a handler in which a persistence operation failed has produced no
\* result, the error has left it, and the step of the failure and every step
\* after it until the next invocation write nothing to the store, issue no
\* SSO request and leave the token cache alone; validateCurrentUser is no
\* exception when its resolver call fails
C23_PersistenceErrorsPropagate ==
  /\ [](task[1].error = "StoreUnavailable"
         => /\ task[1].pc = "failed"
            /\ task[1].resKind = "none"
            /\ task[1].accessToken = IdleTask.accessToken
            /\ task[1].checkResponse = NoResponse)
  /\ [][ (task'[1].error = "StoreUnavailable" \/ task[1].error = "StoreUnavailable")
         => /\ <<users, conversations, conversationStates, consents, messages>>' =
                 <<users, conversations, conversationStates, consents, messages>>
            /\ <<ssoTokenCache, ssoCall>>' = <<ssoTokenCache, ssoCall>>
            /\ task[1].error = "StoreUnavailable" => task'[1] = IdleTask
     ]_vars

\* validateCurrentUser of a User with a stored docNumber failed in the
\* resolver after the upsert: no token was requested
C23_Witness ==
  /\ task[1].tool = "validateCurrentUser" /\ task[1].pc = "failed"
  /\ task[1].error = "StoreUnavailable"
  /\ task[1].user # 0 /\ task[1].userDoc = "d1"
  /\ ~ssoTokenCache.has

\* C24: requestDocNumberConfirmation and confirmDocNumber are refused in no
\* state of the conversation; when requestDocNumberConfirmation completes the
\* stored state is exactly {step: awaiting_doc_confirmation, docNumber: arg}
\* and when confirmDocNumber completes exactly {step: document_confirmed},
\* whatever was stored before
C24_DocStepsOverwrite ==
  [][ LET tk == task[1] IN
      (tk.tool \in {"requestDocNumberConfirmation", "confirmDocNumber"}
         /\ tk.pc # "idle" /\ task'[1].pc # tk.pc)
      => /\ task'[1].pc = "failed" => task'[1].error = "StoreUnavailable"
         /\ task'[1].pc = "done"
            => LET after == conversationState_findUnique(conversationStates',
                                                         tk.conversation)
               IN /\ task'[1].resKind = "ok"
                  /\ after.kind = "obj"
                  /\ tk.tool = "requestDocNumberConfirmation"
                     => /\ DOMAIN after.val = {"step", "docNumber"}
                        /\ after.val["step"] = JStr("awaiting_doc_confirmation")
                        /\ after.val["docNumber"] = JStr(tk.args.docNumber)
                  /\ tk.tool = "confirmDocNumber"
                     => /\ DOMAIN after.val = {"step"}
                        /\ after.val["step"] = JStr("document_confirmed")
    ]_vars

\* confirmDocNumber as the first call for its identity, with no request
\* before it, has completed
C24_Witness ==
  /\ task[1].tool = "confirmDocNumber" /\ task[1].pc = "done"
  /\ task[1].found = 0
  /\ StoredState(task[1].conversation) =
       JObj([k \in {"step"} |-> JStr("document_confirmed")])

\* C25 as stated: the session map holds exactly the sessions opened by an
\* accepted handshake and not yet closed; a POST /mcp/messages reaches a
\* transport only if its sessionId is in the map, is answered 400 when the
\* sessionId parameter is missing, and 404 when it names a session that is
\* not in the map
C25_SessionRouting_AsStated ==
  /\ [](transports = httpLog.opened \ httpLog.closed)
  /\ [][ (request.pc = "received" /\ request'.pc = "responded"
            /\ request.method = "POST" /\ StartsWith(request.path, Url_messages))
         => LET r == request' IN
            /\ httpLog'.delivered # httpLog.delivered
               => (r.sessionId \in transports
                    /\ httpLog'.delivered = httpLog.delivered \cup {r.sessionId})
            /\ r.sessionId = NoSession => r.status = 400
            /\ (r.sessionId \notin {NoSession, EmptySession}
                  /\ r.sessionId \notin transports)
               => r.status = 404
     ]_vars

\* C25, for requests that passed assertAuth: the session map holds exactly
\* the sessions opened by an accepted handshake and not yet closed; a POST
\* /mcp/messages reaches a transport only if its sessionId is in the map, is
\* answered 400 when the sessionId parameter is missing or empty, and 404
\* when it names a session that is not in the map, closed ones included
C25_SessionRouting ==
  /\ [](transports = httpLog.opened \ httpLog.closed)
  /\ [][ (request.pc = "received" /\ request'.pc = "responded"
            /\ request.method = "POST" /\ StartsWith(request.path, Url_messages))
         => LET r == request'
                authorised ==
                  \/ MCP_BEARER_TOKEN = <<>>
                  \/ r.auth = <<"B","e","a","r","e","r"," ">> \o MCP_BEARER_TOKEN
            IN
            /\ (httpLog'.delivered # httpLog.delivered \/ task' # task)
               => (authorised /\ r.sessionId \in transports
                    /\ httpLog'.delivered = httpLog.delivered \cup {r.sessionId})
            /\ (authorised /\ r.sessionId \in {NoSession, EmptySession})
               => r.status = 400
            /\ (authorised /\ r.sessionId \notin {NoSession, EmptySession}
                  /\ r.sessionId \notin transports)
               => (r.status = 404 /\ task' = task)
            /\ transports' = transports
     ]_vars

\* with the secret s3 an authorised POST for a session that was opened and
\* has closed was answered 404 while another session is open
C25_Witness ==
  /\ MCP_BEARER_TOKEN = <<"s","3">>
  /\ request.pc = "responded" /\ request.method = "POST"
  /\ request.path = Url_messages
  /\ request.auth = Str_Bearer \o <<"s","3">>
  /\ request.sessionId \in httpLog.closed
  /\ request.status = 404
  /\ transports # {}

C27_NoLostUpdate ==
  (/\ \A t \in {1, 2} : task[t].tool = "setState" /\ task[t].pc = "done"
                          /\ ~task[t].args.replace
   /\ task[1].conversation = task[2].conversation
   /\ DOMAIN task[1].args.data.val \cap DOMAIN task[2].args.data.val = {})
  => LET stored == StoredState(task[1].conversation) IN
     /\ stored.kind = "obj"
     /\ \A t \in {1, 2} : \A k \in DOMAIN task[t].args.data.val :
          k \in DOMAIN stored.val /\ stored.val[k] = task[t].args.data.val[k]

\* C28: a call resolves to the one User whose channel is the normalised
\* channel of the call and whose externalId is the call's, to that User's
\* one Conversation and to its state row, so calls whose channels normalise
\* alike share them; a step of a call leaves the state, the messages and
\* the consents of every other User's conversations as they are, and what a
\* call reads comes from its own conversation
C28_IdentityByNormalisedChannel ==
  /\ [](\A i, j \in 1..Len(users) :
          (users[i].channel = users[j].channel
             /\ users[i].externalId = users[j].externalId) => i = j)
  /\ [](\A i, j \in 1..Len(conversations) :
          conversations[i].userId = conversations[j].userId => i = j)
  /\ [](LET tk == task[1] IN
         (tk.user # 0 /\ tk.pc # "failed")
         => /\ users[tk.user].channel = parseChannel(tk.args.channel)
            /\ users[tk.user].externalId = tk.args.externalId
            /\ tk.conversation # 0
               => conversations[tk.conversation].userId = tk.user
            /\ (tk.tool = "getState" /\ tk.pc = "done")
               => tk.resData = StoredState(tk.conversation)
            /\ (tk.tool = "getConversationSummary" /\ tk.pc = "done")
               => /\ tk.resData = StoredState(tk.conversation)
                  /\ \A k \in 1..Len(tk.resMessages) :
                       messages[tk.resMessages[k]].conversationId = tk.conversation
                  /\ Len(tk.resMessages) = Cardinality(MessagesOf(tk.conversation)))
  /\ [][ \A c \in 1..Len(conversations) :
           (task'[1].user = 0 \/ conversations[c].userId # task'[1].user)
           => /\ conversationState_findUnique(conversationStates', c) = StoredState(c)
              /\ {i \in 1..Len(messages') : messages'[i].conversationId = c}
                   = MessagesOf(c)
              /\ {i \in 1..Len(consents') : consents'[i].conversationId = c}
                   = ConsentsOf(c)
     ]_vars

\* a summary asked through y shows the state and the one message written
\* through x, while the conversation of (web, e1) holds other state and a
\* message of its own
C28_Witness ==
  /\ task[1].tool = "getConversationSummary" /\ task[1].pc = "done"
  /\ task[1].args.channel = <<"y">>
  /\ task[1].resData = JObj([k \in {"a"} |-> JNum(1)])
  /\ Len(task[1].resMessages) = 1
  /\ \E u \in 1..Len(users), c \in 1..Len(conversations) :
       /\ users[u].channel = "web" /\ conversations[c].userId = u
       /\ StoredState(c) = JObj([k \in {"b"} |-> JNum(1)])
       /\ Cardinality(MessagesOf(c)) = 1

\* C29: a successful token response with 0 < expires_in <= 60 is stored with
\* an expiresAt not later than the time of storing; the clock never goes
\* back, so a slot that has expired stays expired until it is replaced, and
\* every call that starts on it, the call right after the storing one
\* included, issues a token request
C29_ShortLivedNeverServed ==
  [][ /\ (ssoCall[1].pc = "json" /\ ssoCall'[1].pc = "returned"
            /\ ssoCall[1].payload.hasExpiresIn
            /\ 0 < ssoCall[1].payload.expires_in
            /\ ssoCall[1].payload.expires_in <= 60)
         => /\ ssoTokenCache'.has
            /\ ssoTokenCache'.token = ssoCall[1].payload.access_token
            /\ ssoTokenCache'.expiresAt <= now
      /\ now' >= now
      /\ (ssoTokenCache.has /\ ssoTokenCache.expiresAt <= now
            /\ ssoTokenCache' = ssoTokenCache)
         => ssoTokenCache'.expiresAt <= now'
      /\ (ssoCall[1].pc = "idle" /\ ssoCall'[1].pc # "idle"
            /\ ssoTokenCache.has /\ ssoTokenCache.expiresAt <= now)
         => (ssoCall'[1].pc = "fetch" /\ ssoCall'[1].reqs = 1)
      /\ (ssoCall[1].pc = "idle" /\ ssoCall'[1].pc # "idle"
            /\ lastCall[1].pc = "returned" /\ lastCall[1].reqs = 1
            /\ lastCall[1].payload.hasExpiresIn
            /\ 0 < lastCall[1].payload.expires_in
            /\ lastCall[1].payload.expires_in <= 60)
         => (ssoCall'[1].pc = "fetch" /\ ssoCall'[1].reqs = 1)
    ]_vars

\* a token with expires_in = 60 was stored, and the call made right after
\* it, at the same clock value, has issued a request
C29_Witness ==
  /\ lastCall[1].pc = "returned" /\ lastCall[1].reqs = 1
  /\ lastCall[1].payload.hasExpiresIn /\ lastCall[1].payload.expires_in = 60
  /\ ssoCall[1].pc = "fetch" /\ ssoCall[1].reqs = 1
  /\ ssoCall[1].cacheAtEntry.has
  /\ ssoCall[1].cacheAtEntry.token = lastCall[1].payload.access_token
  /\ ssoCall[1].cacheAtEntry.expiresAt = now

\* C30: a call that finds its User with a Conversation that has no state
\* row takes that User and that Conversation from the upsert, without
\* creating a row, and then creates the missing state row with data {},
\* leaving the User and Conversation tables as they are
C30_BootstrapRepaired ==
  [][ LET tk == task[1]
          stateless(c) ==
            \A i \in 1..Len(conversationStates) :
              conversationStates[i].conversationId # c
      IN
      /\ (tk.pc = "user_upsert_write" /\ tk.found # 0
            /\ task'[1].pc \notin {tk.pc, "failed"}
            /\ \E c \in 1..Len(conversations) :
                 conversations[c].userId = tk.found /\ stateless(c))
         => /\ task'[1].user = tk.found
            /\ task'[1].conversation # 0
            /\ conversations[task'[1].conversation].userId = tk.found
            /\ stateless(task'[1].conversation)
            /\ task'[1].pc = "conversationState_upsert"
            /\ Len(users') = Len(users)
            /\ conversations' = conversations
            /\ conversationStates' = conversationStates
      /\ (tk.pc = "conversationState_upsert" /\ stateless(tk.conversation)
            /\ task'[1].pc \notin {tk.pc, "failed"})
         => /\ conversationStates' =
                 Append(conversationStates,
                        [conversationId |-> tk.conversation,
                         data |-> [kind |-> "obj", val |-> EmptyFcn]])
            /\ users' = users
            /\ conversations' = conversations
            /\ task'[1].pc = "done"
            /\ task'[1].user = tk.user
            /\ task'[1].conversation = tk.conversation
    ]_vars

\* no User existed at the start and no call that created one has returned,
\* so the creating call failed; a later call found the User, has returned
\* it with its Conversation, and the state row is there with data {}
C30_Witness ==
  /\ preexisting = {}
  /\ Len(users) = 1 /\ Len(conversations) = 1
  /\ task[1].tool = "initConversation" /\ task[1].pc = "done"
  /\ task[1].found = 1 /\ task[1].user = 1 /\ task[1].conversation = 1
  /\ \A r \in initReturned : r.existed
  /\ Cardinality(initReturned) = 1
  /\ conversationStates = <<[conversationId |-> 1, data |-> EmptyObj]>>

====
